---- MODULE Spec2Model ----
(***************************************************************************)
(* State-machine model of the scf pipeline workers that coordinate through *)
(* the relational store: ingestor (app/ingest_queue.py), resolver          *)
(* (app/worker_resolve.py), swap parser (app/parser_swap.py), LP parser    *)
(* (app/parser_lp.py), authority parser (app/parser_authority.py),         *)
(* detector (app/detector.py), executors (app/executor_paper.py,           *)
(* app/executor_live.py, app/executor.py) and the exit worker              *)
(* (app/exit_worker.py); and of the runner (app/scf_runner.py) that        *)
(* supervises the worker processes.                                        *)
(*                                                                         *)
(* Detector, executors, exit worker, ingestor and swap parser run on       *)
(* autocommit connections (none of these files opens conn.transaction()),  *)
(* so each of their SQL statements is one committed step and the worker    *)
(* can stop between any two of them.  The resolver stores a transaction    *)
(* and the LP and authority parsers handle a batch inside                   *)
(* conn.transaction(): one step.                                           *)
(*                                                                         *)
(* Fixed-point scales: feature values x10000, prices / levels / multiples  *)
(* x100, ratios x100, sizes x10000; token amounts of swaps are whole       *)
(* units.  Time is an integer clock (NOW()).                               *)
(***************************************************************************)
EXTENDS Integers, Sequences, FiniteSets, TLC

VARIABLES now,
          \* tables of the store
          features_latest, detector_signal, detector_cursor,
          position, fill, exit_event, latest_price,
          \* detector processes
          dpc, drows, dstmt,
          \* executor processes
          execVariant, epc, esignals, enew,
          \* exit worker process
          partials, xpc, xqueue, xpx, xtaken, xside, xidx, xqty, xreason, xfaults,
          \* tables of the ingestion side of the store
          tx_queue, tx_raw, parsed_sig, swap_event, lp_event, cursor_state,
          \* resolver processes
          rpc, rcur, rerr,
          \* swap parser process
          spc, swap_last_slot, swap_rows, sfaults,
          \* LP parser process
          lpc, lp_last_slot, lp_rows,
          \* authority parser: its table and its processes
          authority_event, apc, arows,
          \* runner: stop flag, worker records, children, watcher tasks, stop_all
          stop_flag, running, exit_count, alive, wpc, wdelay, stop_pc,
          \* feature worker process
          fpc, fqueue, frows,
          \* runner: health loop of run_full, stop event
          hpc, hsnap, stop_ev

dbVars   == <<features_latest, detector_signal, detector_cursor,
              position, fill, exit_event, latest_price>>
detVars  == <<dpc, drows, dstmt>>
execVars == <<execVariant, epc, esignals, enew>>
exitVars == <<partials, xpc, xqueue, xpx, xtaken, xside, xidx, xqty, xreason, xfaults>>
txVars   == <<tx_queue, tx_raw, parsed_sig, swap_event, lp_event, cursor_state>>
resVars  == <<rpc, rcur, rerr>>
swapVars == <<spc, swap_last_slot, swap_rows, sfaults>>
lpVars   == <<lpc, lp_last_slot, lp_rows>>
pipeVars == <<txVars, resVars, swapVars, lpVars>>
authVars == <<authority_event, apc, arows>>
runVars  == <<stop_flag, running, exit_count, alive, wpc, wdelay, stop_pc>>
featVars == <<fpc, fqueue, frows>>
healthVars == <<hpc, hsnap, stop_ev>>
extVars  == <<authVars, runVars, featVars, healthVars>>
vars     == <<now, dbVars, detVars, execVars, exitVars, pipeVars, extVars>>

-----------------------------------------------------------------------------
(* Bounds of the model                                                     *)
MaxTime    == 2
MaxSignals == 3
MaxFaults  == 1

Detectors == {1, 2}
Executors == {1, 2}

-----------------------------------------------------------------------------
(* Values and conversions                                                  *)

NullV    == [t |-> "null", v |-> 0]
NumV(n)  == [t |-> "num",  v |-> n]
TextV    == [t |-> "text", v |-> 0]

DigitChar == <<"0", "1", "2", "3", "4", "5", "6", "7", "8", "9">>

RECURSIVE Str(_)
\* Python str(int) for a non-negative integer
Str(n) == IF n < 10 THEN DigitChar[n + 1]
          ELSE Str(n \div 10) \o DigitChar[(n % 10) + 1]

RECURSIVE Join(_)
\* ",".join(seq)
Join(s) == IF Len(s) = 0 THEN ""
           ELSE IF Len(s) = 1 THEN s[1]
           ELSE s[1] \o "," \o Join(Tail(s))

RECURSIVE SelectSeqIdx(_, _)
\* the sub-sequence of s at the positions in keep (order preserved)
SelectSeqIdx(s, keep) ==
    IF Len(s) = 0 THEN <<>>
    ELSE LET rest == SelectSeqIdx(SubSeq(s, 1, Len(s) - 1), keep)
         IN  IF Len(s) \in keep THEN Append(rest, s[Len(s)]) ELSE rest

Abs(x) == IF x < 0 THEN -x ELSE x

-----------------------------------------------------------------------------
(* Detector: thresholds and rule (app/detector.py)                         *)

VC_MAX    == 150
OFS_MAX   == 10
LT_MAX    == 50000000
WC_MIN    == 6000
RQ_MAX    == 5000
DEDUP_SEC == 1

SIGNAL_TYPE == "long"

FEATURE_KEYS == [vc  |-> <<"atr15">>,
                 ofs |-> <<"cvd_slope_1m">>,
                 lt  |-> <<"depth_1p0">>,
                 wc  |-> <<"wc_quality_arrivals">>,
                 rq  |-> <<"watchers_slope">>]

RECURSIVE pick(_, _)
\* first candidate column that is present and not NULL, else NULL
pick(row, keys) ==
    IF Len(keys) = 0 THEN NullV
    ELSE IF Head(keys) \in DOMAIN row /\ row[Head(keys)].t # "null"
         THEN row[Head(keys)]
         ELSE pick(row, Tail(keys))

SCF5_REASON == "SCF5:vc<=0.015,|ofs|<=0.001,lt<=5000.0,wc>=0.6,rq<=0.5"

\* rule_pass with wc > WC_MIN in place of wc >= WC_MIN (not the code)
rule_pass_StrictWC(row) ==
    LET names == <<"vc", "ofs", "lt", "wc", "rq">>
        val(k) == pick(row, FEATURE_KEYS[k])
        missing == SelectSeq(names, LAMBDA k : val(k).t = "null")
        castfail == \E i \in 1..5 : val(names[i]).t # "num"
        conds == << <<"VC",  val("vc").v <= VC_MAX>>,
                    <<"OFS", Abs(val("ofs").v) <= OFS_MAX>>,
                    <<"LT",  val("lt").v <= LT_MAX>>,
                    <<"WC",  val("wc").v > WC_MIN>>,
                    <<"RQ",  val("rq").v <= RQ_MAX>> >>
        failedIdx == {i \in 1..5 : ~conds[i][2]}
        failed == SelectSeqIdx([i \in 1..5 |-> conds[i][1]], failedIdx)
    IN  IF Len(missing) > 0 THEN <<FALSE, "missing:" \o Join(missing)>>
        ELSE IF castfail THEN <<FALSE, "type_cast_fail">>
        ELSE IF Len(failed) > 0 THEN <<FALSE, "fail:" \o Join(failed)>>
        ELSE <<TRUE, SCF5_REASON>>

rule_pass(row) ==
    LET names == <<"vc", "ofs", "lt", "wc", "rq">>
        val(k) == pick(row, FEATURE_KEYS[k])
        missing == SelectSeq(names, LAMBDA k : val(k).t = "null")
        castfail == \E i \in 1..5 : val(names[i]).t # "num"
        conds == << <<"VC",  val("vc").v <= VC_MAX>>,
                    <<"OFS", Abs(val("ofs").v) <= OFS_MAX>>,
                    <<"LT",  val("lt").v <= LT_MAX>>,
                    <<"WC",  val("wc").v >= WC_MIN>>,
                    <<"RQ",  val("rq").v <= RQ_MAX>> >>
        failedIdx == {i \in 1..5 : ~conds[i][2]}
        failed == SelectSeqIdx([i \in 1..5 |-> conds[i][1]], failedIdx)
    IN  IF Len(missing) > 0 THEN <<FALSE, "missing:" \o Join(missing)>>
        ELSE IF castfail THEN <<FALSE, "type_cast_fail">>
        ELSE IF Len(failed) > 0 THEN <<FALSE, "fail:" \o Join(failed)>>
        ELSE <<TRUE, SCF5_REASON>>

\* Feature rows the store can hold for a pool (spec scenarios 1 and 6, and a
\* row with a NULL input).
RowPass(p) == [pool |-> p, atr15 |-> NumV(100), cvd_slope_1m |-> NumV(5),
               depth_1p0 |-> NumV(10000000),
               wc_quality_arrivals |-> NumV(7000), watchers_slope |-> NumV(2000)]
RowFailWC(p) == [RowPass(p) EXCEPT !.wc_quality_arrivals = NumV(5000)]
RowMissing(p) == [RowPass(p) EXCEPT !.atr15 = NullV]

FeatureTables ==
    { <<RowPass("AAA"), RowFailWC("CCC"), RowPass("BBB"), RowPass(""), RowMissing("DDD")>> }

\* variant of the `recent` CTE whose window excludes its boundary
\* (created_at > NOW() - interval)
RecentExists_Strict(tbl, pool, stype, t) ==
    \E i \in 1..Len(tbl) :
        /\ tbl[i].pool = pool
        /\ tbl[i].signal_type = stype
        /\ tbl[i].created_at > t - DEDUP_SEC

\* the `recent` CTE of INSERT_SIGNAL_SQL evaluated on table contents tbl at time t
RecentExists(tbl, pool, stype, t) ==
    \E i \in 1..Len(tbl) :
        /\ tbl[i].pool = pool
        /\ tbl[i].signal_type = stype
        /\ tbl[i].created_at >= t - DEDUP_SEC

NoStmt == [phase |-> "none", pool |-> "", reason |-> "", at |-> 0, recent |-> FALSE]

\* rows = await conn.fetch(SELECT_FEATURES_SQL)
DetFetch(d) ==
    /\ dpc[d] = "poll"
    /\ drows' = [drows EXCEPT ![d] = features_latest]
    /\ dpc' = [dpc EXCEPT ![d] = "rows"]
    /\ UNCHANGED <<extVars, pipeVars, now, dbVars, dstmt, execVars, exitVars>>

\* loop body up to the point where INSERT_SIGNAL_SQL starts executing: the
\* statement reads its snapshot (the `recent` CTE) at its start time NOW().
DetRow(d) ==
    /\ dpc[d] = "rows"
    /\ Len(drows[d]) > 0
    /\ LET row == Head(drows[d])
           pool == row.pool
           rp == rule_pass(row)
       IN  IF pool = "" \/ ~rp[1]
           THEN /\ drows' = [drows EXCEPT ![d] = Tail(@)]
                /\ UNCHANGED <<dpc, dstmt>>
           ELSE /\ dstmt' = [dstmt EXCEPT ![d] =
                        [phase |-> "snapshot", pool |-> pool, reason |-> rp[2],
                         at |-> now,
                         recent |-> RecentExists(detector_signal, pool, SIGNAL_TYPE, now)]]
                /\ dpc' = [dpc EXCEPT ![d] = "insert"]
                /\ UNCHANGED drows
    /\ UNCHANGED <<extVars, pipeVars, now, dbVars, execVars, exitVars>>

\* INSERT_SIGNAL_SQL completes: the row is written iff the snapshot of the
\* statement showed no recent row; created_at defaults to the statement's NOW().
DetInsert(d) ==
    /\ dpc[d] = "insert"
    /\ dstmt[d].recent \/ Len(detector_signal) < MaxSignals
    /\ detector_signal' =
          IF dstmt[d].recent THEN detector_signal
          ELSE Append(detector_signal,
                      [id |-> Len(detector_signal) + 1,
                       pool |-> dstmt[d].pool,
                       signal_type |-> SIGNAL_TYPE,
                       reason |-> dstmt[d].reason,
                       created_at |-> dstmt[d].at])
    /\ dstmt' = [dstmt EXCEPT ![d] = NoStmt]
    /\ drows' = [drows EXCEPT ![d] = Tail(@)]
    /\ dpc' = [dpc EXCEPT ![d] = "rows"]
    /\ UNCHANGED <<extVars, pipeVars, now, features_latest, detector_cursor, position, fill, exit_event,
                   latest_price, execVars, exitVars>>

\* await conn.execute(UPSERT_CURSOR_SQL); await asyncio.sleep(POLL_SEC)
DetCursor(d) ==
    /\ dpc[d] = "rows"
    /\ Len(drows[d]) = 0
    /\ detector_cursor' = now
    /\ dpc' = [dpc EXCEPT ![d] = "poll"]
    /\ UNCHANGED <<extVars, pipeVars, now, features_latest, detector_signal, position, fill, exit_event,
                   latest_price, drows, dstmt, execVars, exitVars>>

\* the detector process dies (no try/except in its loop) and is started again
DetCrash(d) ==
    /\ dpc[d] # "poll"
    /\ dpc' = [dpc EXCEPT ![d] = "poll"]
    /\ drows' = [drows EXCEPT ![d] = <<>>]
    /\ dstmt' = [dstmt EXCEPT ![d] = NoStmt]
    /\ UNCHANGED <<extVars, pipeVars, now, dbVars, execVars, exitVars>>

\* a statement of the loop raises (conn.fetch, INSERT_SIGNAL_SQL or
\* UPSERT_CURSOR_SQL): the loop has no except clause, the exception leaves
\* `while True` through `finally: await conn.close()` and main() ends
DetRaise(d) ==
    /\ dpc[d] # "ended"
    /\ dpc' = [dpc EXCEPT ![d] = "ended"]
    /\ drows' = [drows EXCEPT ![d] = <<>>]
    /\ dstmt' = [dstmt EXCEPT ![d] = NoStmt]
    /\ UNCHANGED <<extVars, pipeVars, now, dbVars, execVars, exitVars>>

\* the clock of the store advances
Tick ==
    /\ now < MaxTime
    /\ now' = now + 1
    /\ UNCHANGED <<extVars, pipeVars, dbVars, detVars, execVars, exitVars>>

-----------------------------------------------------------------------------
(* Executors (app/executor_paper.py, app/executor_live.py, app/executor.py)*)

WINDOW == 2
BATCH  == 2

ExecVariants == {"paper", "live", "plain"}

RECURSIVE SortByCreated(_)
\* ORDER BY created_at ASC (ties in table order)
SortByCreated(s) ==
    IF Len(s) = 0 THEN <<>>
    ELSE LET m == CHOOSE i \in 1..Len(s) :
                    \A j \in 1..Len(s) :
                        \/ s[i].created_at < s[j].created_at
                        \/ (s[i].created_at = s[j].created_at /\ i <= j)
         IN  <<s[m]>> \o SortByCreated(SelectSeqIdx(s, (1..Len(s)) \ {m}))

\* SELECT_SIGNALS_SQL: created_at > NOW() - window, oldest first, LIMIT batch
SelectSignals(tbl, t) ==
    LET recent == SelectSeq(tbl, LAMBDA r : r.created_at > t - WINDOW)
        sorted == SortByCreated(recent)
    IN  SubSeq(sorted, 1, IF Len(sorted) < BATCH THEN Len(sorted) ELSE BATCH)

\* variant of EXISTS_SQL that reads the wrong meta key (meta->>'signal')
PositionExists_WrongKey(tbl, sig_id) ==
    \E i \in 1..Len(tbl) :
        /\ "signal" \in DOMAIN tbl[i].meta
        /\ tbl[i].meta["signal"] = sig_id

\* variant of EXISTS_SQL that only looks at positions in state 'OPEN'
PositionExists_OpenOnly(tbl, sig_id) ==
    \E i \in 1..Len(tbl) :
        /\ tbl[i].state = "OPEN"
        /\ "signal_id" \in DOMAIN tbl[i].meta
        /\ tbl[i].meta["signal_id"] = sig_id

\* EXISTS_SQL: SELECT 1 FROM position WHERE (meta->>'signal_id') = $1
PositionExists(tbl, sig_id) ==
    \E i \in 1..Len(tbl) :
        /\ "signal_id" \in DOMAIN tbl[i].meta
        /\ tbl[i].meta["signal_id"] = sig_id

\* the placeholders each executor variant records
Placeholders(variant, sig_id) ==
    IF variant = "live"
    THEN [size_sol |-> 100, entry_px |-> 100, slippage |-> 50, fill_qty |-> 100,
          meta |-> [signal_id |-> sig_id, source |-> "detector_signal",
                    mode |-> "live_stub"]]
    ELSE IF variant = "paper"
    THEN [size_sol |-> 0, entry_px |-> 100, slippage |-> 0, fill_qty |-> 0,
          meta |-> [signal_id |-> sig_id, source |-> "detector_signal",
                    mode |-> "paper"]]
    ELSE [size_sol |-> 0, entry_px |-> 100, slippage |-> 0, fill_qty |-> 0,
          meta |-> [signal_id |-> sig_id, source |-> "detector_signal"]]

\* the value bound to $7 (state) by the executors
ExecState == "open"

\* signals = await conn.fetch(SELECT_SIGNALS_SQL, ...)
ExecFetch(e) ==
    /\ epc[e] = "fetch"
    /\ esignals' = [esignals EXCEPT ![e] = SelectSignals(detector_signal, now)]
    /\ epc' = [epc EXCEPT ![e] = "exists"]
    /\ UNCHANGED <<extVars, pipeVars, now, dbVars, detVars, execVariant, enew, exitVars>>

\* if await conn.fetchval(EXISTS_SQL, sig_id): continue
ExecExists(e) ==
    /\ epc[e] = "exists"
    /\ IF Len(esignals[e]) = 0
       THEN /\ epc' = [epc EXCEPT ![e] = "fetch"]
            /\ UNCHANGED esignals
       ELSE IF PositionExists(position, Str(Head(esignals[e]).id))
            THEN /\ esignals' = [esignals EXCEPT ![e] = Tail(@)]
                 /\ UNCHANGED epc
            ELSE /\ epc' = [epc EXCEPT ![e] = "insert_position"]
                 /\ UNCHANGED esignals
    /\ UNCHANGED <<extVars, pipeVars, now, dbVars, detVars, execVariant, enew, exitVars>>

\* new_pos_id = await conn.fetchval(INSERT_POSITION_SQL, ...)
ExecInsertPosition(e) ==
    /\ epc[e] = "insert_position"
    /\ LET s  == Head(esignals[e])
           ph == Placeholders(execVariant[e], Str(s.id))
           id == Len(position) + 1
       IN  /\ position' = Append(position,
                 [id |-> id, opened_at |-> now, pool |-> s.pool, token |-> "SOL",
                  size_sol |-> ph.size_sol, entry_px |-> ph.entry_px,
                  slippage_bps |-> ph.slippage, state |-> ExecState,
                  status |-> "open", signal_type |-> s.signal_type,
                  reason |-> s.reason, entry_price |-> ph.entry_px,
                  meta |-> ph.meta])
           /\ enew' = [enew EXCEPT ![e] = id]
    /\ epc' = [epc EXCEPT ![e] = "insert_fill"]
    /\ UNCHANGED <<extVars, pipeVars, now, features_latest, detector_signal, detector_cursor, fill,
                   exit_event, latest_price, detVars, execVariant, esignals, exitVars>>

\* await conn.execute(INSERT_FILL_SQL, new_pos_id, entry_px, qty[, tx_sig])
ExecInsertFill(e) ==
    /\ epc[e] = "insert_fill"
    /\ LET s  == Head(esignals[e])
           ph == Placeholders(execVariant[e], Str(s.id))
       IN  fill' = Append(fill, [pos_id |-> enew[e], side |-> "entry",
                                 px |-> ph.entry_px, qty |-> ph.fill_qty,
                                 tx |-> "NULL", ts |-> now, lvl_tag |-> ""])
    /\ esignals' = [esignals EXCEPT ![e] = Tail(@)]
    /\ enew' = [enew EXCEPT ![e] = 0]
    /\ epc' = [epc EXCEPT ![e] = "exists"]
    /\ UNCHANGED <<extVars, pipeVars, now, features_latest, detector_signal, detector_cursor, position,
                   exit_event, latest_price, detVars, execVariant, exitVars>>

\* a statement raises or the process dies between two statements: the batch is
\* abandoned and the next tick starts from SELECT_SIGNALS_SQL
ExecCrash(e) ==
    /\ epc[e] # "fetch"
    /\ epc' = [epc EXCEPT ![e] = "fetch"]
    /\ esignals' = [esignals EXCEPT ![e] = <<>>]
    /\ enew' = [enew EXCEPT ![e] = 0]
    /\ UNCHANGED <<extVars, pipeVars, now, dbVars, detVars, execVariant, exitVars>>

-----------------------------------------------------------------------------
(* Exit worker (app/exit_worker.py)                                        *)

TP_MULT == 200
SL_MULT == 30

RECURSIVE SortByLevel(_)
\* sorted(out, key=lambda x: x[0])  (stable)
SortByLevel(s) ==
    IF Len(s) = 0 THEN <<>>
    ELSE LET m == CHOOSE i \in 1..Len(s) :
                    \A j \in 1..Len(s) :
                        \/ s[i].level < s[j].level
                        \/ (s[i].level = s[j].level /\ i <= j)
         IN  <<s[m]>> \o SortByLevel(SelectSeqIdx(s, (1..Len(s)) \ {m}))

\* _parse_partials on the items of a "lvl:ratio,lvl:ratio" string; an item
\* that has no ":" or does not parse as two floats has ok = FALSE
_parse_partials(items) ==
    SortByLevel(SelectSeq(items,
        LAMBDA it : it.ok /\ it.level > 0 /\ 0 < it.ratio /\ it.ratio <= 100))

Item(l, r) == [ok |-> TRUE, level |-> l, ratio |-> r]
BadItem    == [ok |-> FALSE, level |-> 0, ratio |-> 0]

\* SCF_TP_PARTIAL / SCF_SL_PARTIAL settings of a deployment
PartialSpecs ==
    { [TP |-> <<Item(150, 25), Item(200, 50)>>, SL |-> <<>>],
      [TP |-> <<BadItem, Item(150, 25)>>, SL |-> <<Item(300, 150), Item(50, 50)>>] }

\* Python str(float) of a level given in hundredths
FloatStr(l) ==
    LET frac == l % 100
    IN  Str(l \div 100) \o "." \o
        (IF frac % 10 = 0 THEN DigitChar[(frac \div 10) + 1]
         ELSE DigitChar[(frac \div 10) + 1] \o DigitChar[(frac % 10) + 1])

\* tag = f"partial_{meta_tag}_{level}"
PartialTag(meta_tag, level) == "partial_" \o meta_tag \o "_" \o FloatStr(level)

StartsWith(k, pre) == Len(k) >= Len(pre) /\ SubSeq(k, 1, Len(pre)) = pre

\* the keys of meta that start with "partial_" and map to true
TakenTags(meta) ==
    {k \in DOMAIN meta : StartsWith(k, "partial_") /\ meta[k] = TRUE}

\* mul >= level, with mul = cur_px / max(entry_px, 1e-12)
MulAtLeast(cur_px, entry_px, level) ==
    IF entry_px > 0 THEN cur_px * 100 >= level * entry_px ELSE cur_px > 0

\* SQL_OPEN_POSITIONS without the WHERE clause (not the code)
IsOpenState_Any(st) == st \in {"OPEN", "CLOSED"}

\* SQL_OPEN_POSITIONS: WHERE state='OPEN'
IsOpenState(st) == st = "OPEN"

\* SQL_OPEN_POSITIONS without its WHERE clause (not the code)
OpenPositions_AnyState(tbl) == tbl

\* SQL_OPEN_POSITIONS
OpenPositions(tbl) ==
    SelectSeq(tbl, LAMBDA p : IsOpenState(p.state))

EmptyMeta == [k \in {} |-> TRUE]

\* An OPEN position already in the store (spec scenario 3: entry_px 1.0, size 10)
SeedPosition(id, pool) ==
    [id |-> id, opened_at |-> 0, pool |-> pool, token |-> "SOL",
     size_sol |-> 100000, entry_px |-> 100, slippage_bps |-> 0, state |-> "OPEN",
     status |-> "open", signal_type |-> "long", reason |-> "seed",
     entry_price |-> 100, meta |-> EmptyMeta]

\* a NULL entry_px column
NullPx == -1

\* an OPEN position whose entry_px is NULL
PoisonPosition(id, pool) == [SeedPosition(id, pool) EXCEPT !.entry_px = NullPx]

SwapPools  == {"AAA"}
SwapPrices == {25, 160, 210}

PartialList(side) == _parse_partials(partials[side])

\* a parser appends a swap_event for the pool: it becomes the latest price
SwapArrives(pool, px) ==
    /\ latest_price[pool] # px
    /\ latest_price' = [latest_price EXCEPT ![pool] = px]
    /\ UNCHANGED <<extVars, pipeVars, now, features_latest, detector_signal, detector_cursor,
                   position, fill, exit_event, detVars, execVars, exitVars>>

\* positions = await conn.fetch(SQL_OPEN_POSITIONS)
ExitFetch ==
    /\ xpc = "idle"
    /\ xqueue' = OpenPositions(position)
    /\ xpc' = "next"
    /\ UNCHANGED <<extVars, pipeVars, now, dbVars, detVars, execVars,
                   partials, xpx, xtaken, xside, xidx, xqty, xreason, xfaults>>

\* for p in positions: entry_px = float(p["entry_px"]), which raises on a
\* NULL entry_px: main's `except Exception` abandons the tick;
\* cur_px = await _get_latest_price(...); skip if none / <= 0
ExitNext ==
    /\ xpc = "next"
    /\ IF Len(xqueue) = 0
       THEN /\ xpc' = "idle"
            /\ UNCHANGED <<xqueue, xpx, xside>>
       ELSE IF Head(xqueue).entry_px = NullPx
       THEN /\ xpc' = "idle"
            /\ xqueue' = <<>>
            /\ UNCHANGED <<xpx, xside>>
       ELSE LET cur_px == latest_price[Head(xqueue).pool]
            IN  IF cur_px <= 0
                THEN /\ xqueue' = Tail(xqueue)
                     /\ UNCHANGED <<xpc, xpx, xside>>
                ELSE /\ xpx' = cur_px
                     /\ xpc' = IF Len(PartialList("TP")) > 0 \/ Len(PartialList("SL")) > 0
                               THEN "partial_meta" ELSE "close"
                     /\ xside' = IF Len(PartialList("TP")) > 0 THEN "TP" ELSE "SL"
                     /\ UNCHANGED xqueue
    /\ UNCHANGED <<extVars, pipeVars, now, dbVars, detVars, execVars,
                   partials, xtaken, xidx, xqty, xreason, xfaults>>

\* _apply_partial: row = await conn.fetchrow("SELECT meta FROM position ...")
ExitPartialMeta ==
    /\ xpc = "partial_meta"
    /\ xtaken' = TakenTags(position[Head(xqueue).id].meta)
    /\ xidx' = 1
    /\ xpc' = "partial_loop"
    /\ UNCHANGED <<extVars, pipeVars, now, dbVars, detVars, execVars,
                   partials, xqueue, xpx, xside, xqty, xreason, xfaults>>

\* the partial sells the whole size (not the code)
TakeQty_Whole(qty, ratio) == qty

\* take_qty = float(qty) * float(ratio)   (ratio in hundredths)
TakeQty(qty, ratio) == (qty * ratio) \div 100

\* for level, ratio in partials: if mul >= level and tag not in taken:
\*     qty = SELECT size_sol; take_qty = qty * ratio
ExitPartialLevel ==
    /\ xpc = "partial_loop"
    /\ LET lst == PartialList(xside)
           p   == Head(xqueue)
       IN  IF xidx > Len(lst)
           THEN /\ IF xside = "TP" /\ Len(PartialList("SL")) > 0
                   THEN xside' = "SL" /\ xpc' = "partial_meta"
                   ELSE xpc' = "close" /\ UNCHANGED xside
                /\ UNCHANGED <<xidx, xqty>>
           ELSE IF /\ MulAtLeast(xpx, p.entry_px, lst[xidx].level)
                   /\ PartialTag(xside, lst[xidx].level) \notin xtaken
                THEN /\ xqty' = TakeQty(position[p.id].size_sol, lst[xidx].ratio)
                     /\ xpc' = "partial_fill"
                     /\ UNCHANGED <<xidx, xside>>
                ELSE /\ xidx' = xidx + 1
                     /\ UNCHANGED <<xpc, xqty, xside>>
    /\ UNCHANGED <<extVars, pipeVars, now, dbVars, detVars, execVars,
                   partials, xqueue, xpx, xtaken, xreason, xfaults>>

\* await conn.execute(SQL_INSERT_FILL, now, pos_id, side_label, cur_px, take_qty)
\* (ts: the worker's _now_utc() reading, one per fill; lvl_tag: bookkeeping of
\* the model, the tag of the level whose branch wrote the row, not a column)
ExitPartialFill ==
    /\ xpc = "partial_fill"
    /\ fill' = Append(fill, [pos_id |-> Head(xqueue).id, side |-> "SELL",
                             px |-> xpx, qty |-> xqty, tx |-> "NULL",
                             ts |-> Len(fill) + 1,
                             lvl_tag |-> PartialTag(xside,
                                            PartialList(xside)[xidx].level)])
    /\ xpc' = "partial_size"
    /\ UNCHANGED <<extVars, pipeVars, now, features_latest, detector_signal, detector_cursor,
                   position, exit_event, latest_price, detVars, execVars,
                   partials, xqueue, xpx, xtaken, xside, xidx, xqty, xreason, xfaults>>

\* UPDATE position SET size_sol = size_sol - take_qty
ExitPartialSize ==
    /\ xpc = "partial_size"
    /\ position' = [position EXCEPT ![Head(xqueue).id].size_sol = @ - xqty]
    /\ xpc' = "partial_tag"
    /\ UNCHANGED <<extVars, pipeVars, now, features_latest, detector_signal, detector_cursor,
                   fill, exit_event, latest_price, detVars, execVars,
                   partials, xqueue, xpx, xtaken, xside, xidx, xqty, xreason, xfaults>>

\* UPDATE position SET meta = COALESCE(meta,'{}') || {tag: true}
ExitPartialTag ==
    /\ xpc = "partial_tag"
    /\ position' = [position EXCEPT ![Head(xqueue).id].meta =
                       (PartialTag(xside, PartialList(xside)[xidx].level) :> TRUE) @@ @]
    /\ xpc' = "partial_event"
    /\ UNCHANGED <<extVars, pipeVars, now, features_latest, detector_signal, detector_cursor,
                   fill, exit_event, latest_price, detVars, execVars,
                   partials, xqueue, xpx, xtaken, xside, xidx, xqty, xreason, xfaults>>

\* await conn.execute(SQL_INSERT_EXIT, now, pos_id, f"{reason}_PARTIAL", {...})
ExitPartialEvent ==
    /\ xpc = "partial_event"
    /\ exit_event' = Append(exit_event,
          [ts |-> Len(fill), pos_id |-> Head(xqueue).id,
           reason |-> xside \o "_PARTIAL",
           meta |-> [level |-> PartialList(xside)[xidx].level,
                     ratio |-> PartialList(xside)[xidx].ratio, px |-> xpx]])
    /\ xidx' = xidx + 1
    /\ xpc' = "partial_loop"
    /\ UNCHANGED <<extVars, pipeVars, now, features_latest, detector_signal, detector_cursor,
                   position, fill, latest_price, detVars, execVars,
                   partials, xqueue, xpx, xtaken, xside, xqty, xreason, xfaults>>

\* the close decision without its stop-loss branch (not the code)
CloseReason_TPOnly(cur_px, entry_px) ==
    IF cur_px * 100 >= entry_px * TP_MULT THEN "TP_HIT" ELSE ""

\* tp_px = entry_px * TP_MULT; sl_px = entry_px * SL_MULT
\* if cur_px >= tp_px: TP_HIT elif cur_px <= sl_px: SL_HIT ("": neither branch)
CloseReason(cur_px, entry_px) ==
    IF cur_px * 100 >= entry_px * TP_MULT THEN "TP_HIT"
    ELSE IF cur_px * 100 <= entry_px * SL_MULT THEN "SL_HIT"
    ELSE ""

\* if cur_px >= tp_px: _close_full(TP_HIT) elif cur_px <= sl_px: _close_full(SL_HIT)
\* _close_full starts with qty = SELECT size_sol
ExitCloseDecide ==
    /\ xpc = "close"
    /\ LET p == Head(xqueue)
           reason == CloseReason(xpx, p.entry_px)
       IN  IF reason # ""
           THEN /\ xreason' = reason
                /\ xqty' = position[p.id].size_sol
                /\ xpc' = "close_fill"
                /\ UNCHANGED xqueue
           ELSE /\ xqueue' = Tail(xqueue)
                /\ xpc' = "next"
                /\ UNCHANGED <<xreason, xqty>>
    /\ UNCHANGED <<extVars, pipeVars, now, dbVars, detVars, execVars,
                   partials, xpx, xtaken, xside, xidx, xfaults>>

\* _close_full: await conn.execute(SQL_INSERT_FILL, now, pos_id, "SELL", cur_px, qty)
ExitCloseFill ==
    /\ xpc = "close_fill"
    /\ fill' = Append(fill, [pos_id |-> Head(xqueue).id, side |-> "SELL",
                             px |-> xpx, qty |-> xqty, tx |-> "NULL",
                             ts |-> Len(fill) + 1, lvl_tag |-> ""])
    /\ xpc' = "close_state"
    /\ UNCHANGED <<extVars, pipeVars, now, features_latest, detector_signal, detector_cursor,
                   position, exit_event, latest_price, detVars, execVars,
                   partials, xqueue, xpx, xtaken, xside, xidx, xqty, xreason, xfaults>>

\* _close_full: await conn.execute(SQL_CLOSE_POSITION, pos_id)
ExitCloseState ==
    /\ xpc = "close_state"
    /\ position' = [position EXCEPT ![Head(xqueue).id].state = "CLOSED"]
    /\ xpc' = "close_event"
    /\ UNCHANGED <<extVars, pipeVars, now, features_latest, detector_signal, detector_cursor,
                   fill, exit_event, latest_price, detVars, execVars,
                   partials, xqueue, xpx, xtaken, xside, xidx, xqty, xreason, xfaults>>

\* _close_full: await conn.execute(SQL_INSERT_EXIT, now, pos_id, reason, meta)
ExitCloseEvent ==
    /\ xpc = "close_event"
    /\ exit_event' = Append(exit_event,
          [ts |-> Len(fill), pos_id |-> Head(xqueue).id, reason |-> xreason,
           meta |-> [entry_px |-> Head(xqueue).entry_px, exit_px |-> xpx]])
    /\ xqueue' = Tail(xqueue)
    /\ xpc' = "next"
    /\ UNCHANGED <<extVars, pipeVars, now, features_latest, detector_signal, detector_cursor,
                   position, fill, latest_price, detVars, execVars,
                   partials, xpx, xtaken, xside, xidx, xqty, xreason, xfaults>>

\* a statement raises, or the process dies, between two statements: main's
\* `except Exception` abandons the tick; the next tick starts from
\* SQL_OPEN_POSITIONS
ExitFault ==
    /\ xpc # "idle"
    /\ xfaults < MaxFaults
    /\ xfaults' = xfaults + 1
    /\ xpc' = "idle"
    /\ xqueue' = <<>>
    /\ UNCHANGED <<extVars, pipeVars, now, dbVars, detVars, execVars,
                   partials, xpx, xtaken, xside, xidx, xqty, xreason>>

-----------------------------------------------------------------------------
(* Transactions on chain, as the RPC node reports them                     *)

Sigs == {"s1", "s2"}

\* logsNotification messages the ingestor receives: one transaction can be
\* announced on more than one program subscription, and a message can lack a
\* signature
Notifications ==
    { [signature |-> "s1", programId |-> "RAY", slot |-> 1],
      [signature |-> "s1", programId |-> "ORCA", slot |-> 3],
      [signature |-> "s2", programId |-> "RAY", slot |-> 2],
      [signature |-> "",   programId |-> "RAY", slot |-> 2] }

-----------------------------------------------------------------------------
(* Ingestor (app/ingest_queue.py)                                          *)

HasSignature(tbl, sig) == \E i \in 1..Len(tbl) : tbl[i].signature = sig

\* INSERT INTO tx_queue ... ON CONFLICT (signature) DO UPDATE (not the code)
InsertQueue_Upsert(tbl, sig, program_id, slot) ==
    IF HasSignature(tbl, sig)
    THEN [i \in 1..Len(tbl) |->
            IF tbl[i].signature = sig
            THEN [tbl[i] EXCEPT !.program_id = program_id, !.slot = slot,
                                !.status = "queued"]
            ELSE tbl[i]]
    ELSE Append(tbl, [signature |-> sig, program_id |-> program_id, slot |-> slot,
                      status |-> "queued", retries |-> 0, last_error |-> 0])

\* INSERT INTO tx_queue(signature, program_id, slot, status)
\* VALUES($1, $2, $3, 'queued') ON CONFLICT (signature) DO NOTHING;
\* retries and last_error take the column defaults.  The table is kept in
\* insertion order, which is the order of the enqueued column.
InsertQueue(tbl, sig, program_id, slot) ==
    IF HasSignature(tbl, sig) THEN tbl
    ELSE Append(tbl, [signature |-> sig, program_id |-> program_id, slot |-> slot,
                      status |-> "queued", retries |-> 0, last_error |-> 0])

\* one logsNotification handled by the loop of main()
Ingest(n) ==
    /\ n.signature # ""
    /\ tx_queue' = InsertQueue(tx_queue, n.signature, n.programId, n.slot)
    /\ UNCHANGED <<extVars, now, dbVars, detVars, execVars, exitVars, tx_raw, parsed_sig,
                   swap_event, lp_event, cursor_state, resVars, swapVars, lpVars>>

-----------------------------------------------------------------------------
(* Resolver (app/worker_resolve.py)                                        *)

Resolvers == {1, 2}

RETRY_LIMIT    == 5
LAST_ERROR_MAX == 255

\* lengths of the texts str(e) of the exceptions a resolve attempt can raise
ErrLens == {300}
\* ... and of the errors the store can raise inside the transaction
DbErrLens == {40}

NoRow == [signature |-> "", program_id |-> "", slot |-> 0]

\* the getTransaction response for sig, stored verbatim: the transaction sits
\* under the key "result"
RpcResponse(sig) == [shape |-> "rpc", tx |-> sig]

\* rows locked by the claim statements in flight of the instances other than r
LockedByOthers(r) ==
    {rcur[o].signature : o \in {x \in Resolvers : x # r /\ rpc[x] = "locked"}}

\* the picked CTE without SKIP LOCKED and without the re-check of the row
PickQueued_NoSkip(tbl, locked) ==
    LET c == {i \in 1..Len(tbl) : tbl[i].status \in {"queued", "resolving"}}
    IN  IF c = {} THEN 0 ELSE CHOOSE i \in c : \A k \in c : i <= k

\* the picked CTE without its WHERE status='queued' (not the code)
PickQueued_AnyStatus(tbl, locked) ==
    LET c == {i \in 1..Len(tbl) : tbl[i].signature \notin locked}
    IN  IF c = {} THEN 0 ELSE CHOOSE i \in c : \A k \in c : i <= k

\* the picked CTE: SELECT ... WHERE status='queued' ORDER BY enqueued ASC
\* LIMIT 1 FOR UPDATE SKIP LOCKED; 0 when no row qualifies
PickQueued(tbl, locked) ==
    LET c == {i \in 1..Len(tbl) :
                tbl[i].status = "queued" /\ tbl[i].signature \notin locked}
    IN  IF c = {} THEN 0 ELSE CHOOSE i \in c : \A k \in c : i <= k

SetStatus(tbl, sig, st) ==
    [i \in 1..Len(tbl) |->
        IF tbl[i].signature = sig THEN [tbl[i] EXCEPT !.status = st] ELSE tbl[i]]

\* left($2, 255) on a text of length n
left(n, k) == IF n <= k THEN n ELSE k

\* CASE WHEN retries >= 5 ... evaluated on the incremented count (not the code)
FailStatus_AfterIncrement(retries) ==
    IF retries + 1 >= RETRY_LIMIT THEN "error" ELSE "queued"

\* CASE WHEN retries >= 5 THEN 'error' ELSE 'queued' END: in an UPDATE the
\* right-hand sides read the row as it was before the statement
FailStatus(retries) == IF retries >= RETRY_LIMIT THEN "error" ELSE "queued"

\* INSERT INTO tx_raw(signature, slot, j) ... ON CONFLICT (signature) DO NOTHING
InsertRaw(tbl, sig, slot, j) ==
    IF HasSignature(tbl, sig) THEN tbl
    ELSE Append(tbl, [signature |-> sig, slot |-> slot, j |-> j])

\* the claim statement takes the row lock of the picked row
ResClaim(r) ==
    /\ rpc[r] = "claim"
    /\ LET i == PickQueued(tx_queue, LockedByOthers(r))
       IN  /\ i # 0
           /\ rcur' = [rcur EXCEPT ![r] =
                         [signature |-> tx_queue[i].signature,
                          program_id |-> tx_queue[i].program_id,
                          slot |-> tx_queue[i].slot]]
    /\ rpc' = [rpc EXCEPT ![r] = "locked"]
    /\ UNCHANGED <<extVars, now, dbVars, detVars, execVars, exitVars, txVars, rerr,
                   swapVars, lpVars>>

\* ... and commits SET status='resolving', RETURNING the row
ResClaimUpdate(r) ==
    /\ rpc[r] = "locked"
    /\ tx_queue' = SetStatus(tx_queue, rcur[r].signature, "resolving")
    /\ rpc' = [rpc EXCEPT ![r] = "fetch"]
    /\ UNCHANGED <<extVars, now, dbVars, detVars, execVars, exitVars, tx_raw, parsed_sig,
                   swap_event, lp_event, cursor_state, rcur, rerr, swapVars, lpVars>>

\* get_tx returns the response
ResFetchOk(r) ==
    /\ rpc[r] = "fetch"
    /\ rpc' = [rpc EXCEPT ![r] = "store"]
    /\ UNCHANGED <<extVars, now, dbVars, detVars, execVars, exitVars, txVars, rcur, rerr,
                   swapVars, lpVars>>

\* get_tx raises (HTTP status, timeout, ...)
ResFetchFail(r) ==
    /\ rpc[r] = "fetch"
    /\ \E n \in ErrLens : rerr' = [rerr EXCEPT ![r] = n]
    /\ rpc' = [rpc EXCEPT ![r] = "fail"]
    /\ UNCHANGED <<extVars, now, dbVars, detVars, execVars, exitVars, txVars, rcur,
                   swapVars, lpVars>>

\* the INSERT INTO tx_raw committed on its own, the resolver stopping before
\* the UPDATE (not the code)
ResStore_InsertOnly(r) ==
    /\ rpc[r] = "store"
    /\ tx_raw' = InsertRaw(tx_raw, rcur[r].signature, rcur[r].slot,
                           RpcResponse(rcur[r].signature))
    /\ rpc' = [rpc EXCEPT ![r] = "claim"]
    /\ rcur' = [rcur EXCEPT ![r] = NoRow]
    /\ UNCHANGED <<extVars, now, dbVars, detVars, execVars, exitVars, tx_queue, parsed_sig,
                   swap_event, lp_event, cursor_state, rerr, swapVars, lpVars>>

\* conn.transaction(): INSERT INTO tx_raw and UPDATE ... status='resolved'
ResStore(r) ==
    /\ rpc[r] = "store"
    /\ tx_raw' = InsertRaw(tx_raw, rcur[r].signature, rcur[r].slot,
                           RpcResponse(rcur[r].signature))
    /\ tx_queue' = SetStatus(tx_queue, rcur[r].signature, "resolved")
    /\ rpc' = [rpc EXCEPT ![r] = "claim"]
    /\ rcur' = [rcur EXCEPT ![r] = NoRow]
    /\ UNCHANGED <<extVars, now, dbVars, detVars, execVars, exitVars, parsed_sig,
                   swap_event, lp_event, cursor_state, rerr, swapVars, lpVars>>

\* the transaction raises and is rolled back
ResStoreFail(r) ==
    /\ rpc[r] = "store"
    /\ \E n \in DbErrLens : rerr' = [rerr EXCEPT ![r] = n]
    /\ rpc' = [rpc EXCEPT ![r] = "fail"]
    /\ UNCHANGED <<extVars, now, dbVars, detVars, execVars, exitVars, txVars, rcur,
                   swapVars, lpVars>>

\* except Exception: the UPDATE that records the failed attempt
ResFail(r) ==
    /\ rpc[r] = "fail"
    /\ tx_queue' = [i \in 1..Len(tx_queue) |->
            IF tx_queue[i].signature = rcur[r].signature
            THEN [tx_queue[i] EXCEPT
                    !.status = FailStatus(tx_queue[i].retries),
                    !.retries = tx_queue[i].retries + 1,
                    !.last_error = left(rerr[r], LAST_ERROR_MAX)]
            ELSE tx_queue[i]]
    /\ rpc' = [rpc EXCEPT ![r] = "claim"]
    /\ rcur' = [rcur EXCEPT ![r] = NoRow]
    /\ rerr' = [rerr EXCEPT ![r] = 0]
    /\ UNCHANGED <<extVars, now, dbVars, detVars, execVars, exitVars, tx_raw, parsed_sig,
                   swap_event, lp_event, cursor_state, swapVars, lpVars>>

\* the process stops (or the UPDATE of the except branch raises, which ends
\* worker()) and is started again; a claim statement in flight is rolled back
ResCrash(r) ==
    /\ rpc[r] # "claim"
    /\ rpc' = [rpc EXCEPT ![r] = "claim"]
    /\ rcur' = [rcur EXCEPT ![r] = NoRow]
    /\ rerr' = [rerr EXCEPT ![r] = 0]
    /\ UNCHANGED <<extVars, now, dbVars, detVars, execVars, exitVars, txVars, swapVars, lpVars>>

-----------------------------------------------------------------------------
(* Transaction payloads                                                    *)

TxIds == {"s1", "s2", "s3", "s4"}

WSOL == "WSOL"
PROGRAM_SET == {"RAY", "CLMM", "ORCA", "WHIRL"}

Bal(mint, amt) == [mint |-> mint, uiAmount |-> amt]

\* what the node reports for each transaction: account keys of the message,
\* programId fields of its instructions, token balances before and after
\* (uiAmount in whole units, None for an empty account)
ChainTx == [s \in TxIds |->
    CASE s = "s1" -> [accountKeys |-> {"payer", "RAY"}, programIds |-> {},
                      preTokenBalances  |-> <<Bal(WSOL, NumV(10)), Bal("TOK", NullV)>>,
                      postTokenBalances |-> <<Bal(WSOL, NumV(8)), Bal("TOK", NumV(4))>>]
      [] s = "s2" -> [accountKeys |-> {"payer"}, programIds |-> {"SYS"},
                      preTokenBalances  |-> <<Bal("TOK", NumV(5))>>,
                      postTokenBalances |-> <<Bal("TOK", NumV(3)), Bal("TOK", NumV(2))>>]
      [] s = "s3" -> [accountKeys |-> {"payer", "ORCA"}, programIds |-> {"WHIRL"},
                      preTokenBalances  |-> <<Bal(WSOL, NumV(1)), Bal("TOK", NumV(9))>>,
                      postTokenBalances |-> <<Bal(WSOL, NumV(4)), Bal("TOK", NumV(3))>>]
      [] OTHER    -> [accountKeys |-> {"payer"}, programIds |-> {},
                      preTokenBalances  |-> <<Bal("TOK", NullV), Bal(WSOL, NumV(7)),
                                              Bal("USD", NumV(3))>>,
                      postTokenBalances |-> <<Bal("TOK", NumV(5)), Bal(WSOL, NumV(5)),
                                              Bal("USD", NumV(2))>>]]

\* a payload that holds the transaction at top level (keys "meta",
\* "transaction"), as opposed to RpcResponse, which holds it under "result"
FlatPayload(sig) == [shape |-> "flat", tx |-> sig]

\* a top-level payload whose "meta" holds the given balance lists
MetaPayload(pre, post) ==
    [shape |-> "flat", tx |-> "m",
     meta |-> [preTokenBalances |-> pre, postTokenBalances |-> post]]

\* txj.get('meta') or {}, with a missing list read as empty: the key "meta"
\* is at top level only in a payload that holds the transaction at top level
PayloadMeta(txj) ==
    IF txj.shape # "flat" THEN [preTokenBalances |-> <<>>, postTokenBalances |-> <<>>]
    ELSE IF "meta" \in DOMAIN txj THEN txj.meta
    ELSE [preTokenBalances  |-> ChainTx[txj.tx].preTokenBalances,
          postTokenBalances |-> ChainTx[txj.tx].postTokenBalances]

RawRow(sig, slot, j) == [signature |-> sig, slot |-> slot, j |-> j]

-----------------------------------------------------------------------------
(* Swap parser (app/parser_swap.py)                                        *)

SWAP_LIMIT  == 2
PRICE_SCALE == 100

RECURSIVE SortBySlot(_)
\* ORDER BY slot ASC (ties in table order)
SortBySlot(s) ==
    IF Len(s) = 0 THEN <<>>
    ELSE LET m == CHOOSE i \in 1..Len(s) :
                    \A k \in 1..Len(s) :
                        \/ s[i].slot < s[k].slot
                        \/ (s[i].slot = s[k].slot /\ i <= k)
         IN  <<s[m]>> \o SortBySlot(SelectSeqIdx(s, (1..Len(s)) \ {m}))

\* SELECT ... FROM tx_raw WHERE slot > $1 LIMIT $2, without the ORDER BY (not
\* the code)
RowsAfter_NoOrder(tbl, last, limit) ==
    LET found == SelectSeq(tbl, LAMBDA r : r.slot > last)
    IN  SubSeq(found, 1, IF Len(found) < limit THEN Len(found) ELSE limit)

\* SELECT ... FROM tx_raw WHERE slot > $1 ORDER BY slot ASC LIMIT $2
RowsAfter(tbl, last, limit) ==
    LET sorted == SortBySlot(SelectSeq(tbl, LAMBDA r : r.slot > last))
    IN  SubSeq(sorted, 1, IF Len(sorted) < limit THEN Len(sorted) ELSE limit)

\* (uiAmount or 0) or 0
AmtOf(v) == IF v.t = "num" THEN v.v ELSE 0

RECURSIVE SumMint(_, _)
SumMint(tb, mint) ==
    IF Len(tb) = 0 THEN 0
    ELSE (IF Head(tb).mint = mint THEN AmtOf(Head(tb).uiAmount) ELSE 0)
             + SumMint(Tail(tb), mint)

\* dict mint -> summed uiAmount
_balances_by_mint(tb) ==
    [mint \in {tb[i].mint : i \in 1..Len(tb)} |-> SumMint(tb, mint)]

\* dict.get(k, 0.0)
Get(d, k) == IF k \in DOMAIN d THEN d[k] ELSE 0

\* any two items of opposite sign, whatever their |delta| (not the code)
_two_largest_opposite_Any(m) ==
    LET nz == {k \in DOMAIN m : m[k] # 0}
    IN  {p \in nz \X nz : m[p[1]] * m[p[2]] < 0}

\* the pairs the double loop over the items sorted by |delta| descending can
\* return: the first item is one of largest |delta|, the second the first one
\* after it of the opposite sign; items of equal |delta| are in either order.
\* The empty set stands for None.
_two_largest_opposite(m) ==
    LET nz == {k \in DOMAIN m : m[k] # 0}
        top(S) == {k \in S : \A o \in S : Abs(m[k]) >= Abs(m[o])}
    IN  {p \in nz \X nz :
            /\ p[1] \in top(nz)
            /\ p[2] \in top({k \in nz : m[k] * m[p[1]] < 0})}

\* price = base_amt / quote_amt (not the code)
SwapPrice_Inverse(base_amt, quote_amt) == (base_amt * PRICE_SCALE) \div quote_amt

\* price = quote_amt / base_amt, as a fixed-point number
SwapPrice(base_amt, quote_amt) == (quote_amt * PRICE_SCALE) \div base_amt

\* the results infer_swap can return for the payload txj; the empty set stands
\* for None.  txj.get('meta') finds the balances only in a payload that holds
\* the transaction at top level.
infer_swap(txj) ==
    LET meta == PayloadMeta(txj)
        pre  == _balances_by_mint(meta.preTokenBalances)
        post == _balances_by_mint(meta.postTokenBalances)
        deltas == [k \in DOMAIN pre \cup DOMAIN post |-> Get(post, k) - Get(pre, k)]
        oriented(p) ==
            IF deltas[p[1]] > 0 /\ deltas[p[2]] < 0
            THEN [base_mint |-> p[1], base_amt |-> deltas[p[1]],
                  quote_mint |-> p[2], quote_amt |-> -deltas[p[2]]]
            ELSE [base_mint |-> p[2], base_amt |-> deltas[p[2]],
                  quote_mint |-> p[1], quote_amt |-> -deltas[p[1]]]
    IN  IF DOMAIN pre = {} /\ DOMAIN post = {} THEN {}
        ELSE { [base_mint |-> o.base_mint, quote_mint |-> o.quote_mint,
                base_amt |-> o.base_amt, quote_amt |-> o.quote_amt,
                price |-> SwapPrice(o.base_amt, o.quote_amt),
                side |-> IF o.base_mint # WSOL /\ o.quote_mint = WSOL THEN 1
                         ELSE IF o.base_mint = WSOL THEN -1 ELSE 0] :
               o \in {x \in {oriented(p) : p \in _two_largest_opposite(deltas)} :
                        ~(x.base_amt <= 0 \/ x.quote_amt <= 0)} }

\* SQL_GET_CURSOR and (cur or {}).get("last_slot", 0)
PersistedSlot(tbl, name) ==
    IF \E i \in 1..Len(tbl) : tbl[i].name = name
    THEN LET i == CHOOSE i \in 1..Len(tbl) : tbl[i].name = name
         IN  tbl[i].value.last_slot
    ELSE 0

\* SQL_SET_CURSOR: upsert of the row named name
SetCursor(tbl, name, slot) ==
    IF \E i \in 1..Len(tbl) : tbl[i].name = name
    THEN [i \in 1..Len(tbl) |->
            IF tbl[i].name = name THEN [tbl[i] EXCEPT !.value = [last_slot |-> slot]]
            ELSE tbl[i]]
    ELSE Append(tbl, [name |-> name, value |-> [last_slot |-> slot]])

\* the row dyn_insert writes for the result got of row r
SwapEventRow(r, got) ==
    [sig |-> r.signature, slot |-> r.slot,
     pool |-> got.base_mint \o "-" \o got.quote_mint, token |-> got.base_mint,
     side |-> got.side, price |-> got.price,
     base_amt |-> got.base_amt, quote_amt |-> got.quote_amt]

\* rows = await conn.fetch(SQL_FETCH_TX, last_slot), a non-empty batch
SwapFetch ==
    /\ spc = "fetch"
    /\ RowsAfter(tx_raw, swap_last_slot, SWAP_LIMIT) # <<>>
    /\ swap_rows' = RowsAfter(tx_raw, swap_last_slot, SWAP_LIMIT)
    /\ spc' = "row"
    /\ UNCHANGED <<extVars, now, dbVars, detVars, execVars, exitVars, txVars, resVars,
                   swap_last_slot, sfaults, lpVars>>

\* one pass of "for r in rows": infer_swap, the insert when it returned a
\* result, last_slot = slot.  INSERT ... ON CONFLICT DO NOTHING names no
\* constraint: where swap_event already holds a row of the signature the
\* insert either conflicts on a unique key of the table or adds a row.
SwapRow ==
    /\ spc = "row"
    /\ LET r == Head(swap_rows)
       IN  /\ \/ /\ infer_swap(r.j) = {}
                 /\ UNCHANGED swap_event
              \/ \E got \in infer_swap(r.j) :
                    \/ swap_event' = Append(swap_event, SwapEventRow(r, got))
                    \/ /\ \E i \in 1..Len(swap_event) : swap_event[i].sig = r.signature
                       /\ UNCHANGED swap_event
           /\ swap_last_slot' = r.slot
    /\ swap_rows' = Tail(swap_rows)
    /\ spc' = IF Len(swap_rows) = 1 THEN "cursor" ELSE "row"
    /\ UNCHANGED <<extVars, now, dbVars, detVars, execVars, exitVars, tx_queue, tx_raw,
                   parsed_sig, lp_event, cursor_state, resVars, sfaults, lpVars>>

\* await conn.execute(SQL_SET_CURSOR, "parser_swap", {"last_slot": last_slot})
SwapSetCursor ==
    /\ spc = "cursor"
    /\ cursor_state' = SetCursor(cursor_state, "parser_swap", swap_last_slot)
    /\ spc' = "fetch"
    /\ UNCHANGED <<extVars, now, dbVars, detVars, execVars, exitVars, tx_queue, tx_raw,
                   parsed_sig, swap_event, lp_event, resVars, swap_last_slot,
                   swap_rows, sfaults, lpVars>>

\* the process stops and is started again: main() reads the cursor
SwapRestart ==
    /\ sfaults < MaxFaults
    /\ sfaults' = sfaults + 1
    /\ swap_last_slot' = PersistedSlot(cursor_state, "parser_swap")
    /\ swap_rows' = <<>>
    /\ spc' = "fetch"
    /\ UNCHANGED <<extVars, now, dbVars, detVars, execVars, exitVars, txVars, resVars, lpVars>>

-----------------------------------------------------------------------------
(* LP parser (app/parser_lp.py)                                            *)

LP_BATCH == 2

\* strings found by _collect_account_keys: raw["result"]["transaction"]...
\* raises (and is swallowed) in a payload that has no "result" key
_collect_account_keys(raw) ==
    IF raw.shape = "rpc"
    THEN ChainTx[raw.tx].accountKeys \cup ChainTx[raw.tx].programIds
    ELSE {}

\* the ids detect_program_id can return: it walks PROGRAM_SET, a set of
\* strings, in an order that is not fixed.  The empty set stands for None.
detect_program_id(raw) == PROGRAM_SET \cap _collect_account_keys(raw)

\* SQL_LAST_SLOT: SELECT COALESCE(MAX(slot), 0) FROM lp_event
MaxSlot(tbl) ==
    IF Len(tbl) = 0 THEN 0
    ELSE LET i == CHOOSE i \in 1..Len(tbl) : \A k \in 1..Len(tbl) : tbl[i].slot >= tbl[k].slot
         IN  tbl[i].slot

\* SQL_UPSERT_PARSED: INSERT INTO parsed_sig(signature, has_lp) VALUES($1, TRUE)
\* ON CONFLICT (signature) DO UPDATE SET has_lp=TRUE
UpsertParsed(tbl, sig) ==
    IF \E i \in 1..Len(tbl) : tbl[i].signature = sig
    THEN [i \in 1..Len(tbl) |->
            IF tbl[i].signature = sig THEN [tbl[i] EXCEPT !.has_lp = TRUE] ELSE tbl[i]]
    ELSE Append(tbl, [signature |-> sig, has_lp |-> TRUE, has_swap |-> FALSE,
                      has_auth |-> FALSE])

RECURSIVE UpsertParsedAll(_, _)
UpsertParsedAll(tbl, rows) ==
    IF Len(rows) = 0 THEN tbl
    ELSE UpsertParsedAll(UpsertParsed(tbl, Head(rows).signature), Tail(rows))

\* rows = await conn.fetch(SQL_PICK_AFTER_SLOT, last_slot, BATCH), non-empty
LpFetch ==
    /\ lpc = "fetch"
    /\ RowsAfter(tx_raw, lp_last_slot, LP_BATCH) # <<>>
    /\ lp_rows' = RowsAfter(tx_raw, lp_last_slot, LP_BATCH)
    /\ lpc' = "batch"
    /\ UNCHANGED <<extVars, now, dbVars, detVars, execVars, exitVars, txVars, resVars,
                   swapVars, lp_last_slot>>

\* the conn.transaction() block over the batch, and last_slot = max_slot_seen
LpBatch ==
    /\ lpc = "batch"
    /\ \E pool_id \in [1..Len(lp_rows) -> PROGRAM_SET \cup {"None"}] :
          /\ \A i \in 1..Len(lp_rows) :
                pool_id[i] \in (IF detect_program_id(lp_rows[i].j) = {} THEN {"None"}
                                ELSE detect_program_id(lp_rows[i].j))
          /\ lp_event' = lp_event \o
                SelectSeq([i \in 1..Len(lp_rows) |->
                              [sig |-> lp_rows[i].signature, slot |-> lp_rows[i].slot,
                               pool |-> pool_id[i], kind |-> "update"]],
                          LAMBDA e : e.pool # "None")
    /\ parsed_sig' = UpsertParsedAll(parsed_sig, lp_rows)
    /\ lp_last_slot' = LET m == MaxSlot(lp_rows)
                       IN  IF m > lp_last_slot THEN m ELSE lp_last_slot
    /\ lp_rows' = <<>>
    /\ lpc' = "fetch"
    /\ UNCHANGED <<extVars, now, dbVars, detVars, execVars, exitVars, tx_queue, tx_raw,
                   swap_event, cursor_state, resVars, swapVars>>

\* the process stops (or the transaction raises, which ends run()) and is
\* started again: run() reads SQL_LAST_SLOT
LpRestart ==
    /\ lp_last_slot' = MaxSlot(lp_event)
    /\ lp_rows' = <<>>
    /\ lpc' = "fetch"
    /\ UNCHANGED <<extVars, now, dbVars, detVars, execVars, exitVars, txVars, resVars, swapVars>>

-----------------------------------------------------------------------------
(* Authority parser (app/parser_authority.py)                              *)

AuthParsers == {1, 2}
AUTH_BATCH  == 2

\* SQL_PICK: tx_raw rows that have no parsed_sig row or has_auth = FALSE,
\* ORDER BY slot ASC LIMIT $1, each with the program_id of its tx_queue row
\* ("NULL" where tx_queue has no row of the signature)
AuthPick(raw, parsed, queue, limit) ==
    LET todo == SelectSeq(raw, LAMBDA r :
                    ~ \E i \in 1..Len(parsed) :
                          parsed[i].signature = r.signature /\ parsed[i].has_auth)
        sorted == SortBySlot(todo)
        c == SubSeq(sorted, 1, IF Len(sorted) < limit THEN Len(sorted) ELSE limit)
    IN  [k \in 1..Len(c) |->
            [signature |-> c[k].signature, slot |-> c[k].slot,
             program_id |->
                IF \E i \in 1..Len(queue) : queue[i].signature = c[k].signature
                THEN LET i == CHOOSE i \in 1..Len(queue) :
                                  queue[i].signature = c[k].signature
                     IN  queue[i].program_id
                ELSE "NULL"]]

\* SQL_UPSERT_PARSED: INSERT INTO parsed_sig(signature, has_auth)
\* VALUES($1, TRUE) ON CONFLICT (signature) DO UPDATE SET has_auth=TRUE
UpsertParsedAuth(tbl, sig) ==
    IF \E i \in 1..Len(tbl) : tbl[i].signature = sig
    THEN [i \in 1..Len(tbl) |->
            IF tbl[i].signature = sig THEN [tbl[i] EXCEPT !.has_auth = TRUE] ELSE tbl[i]]
    ELSE Append(tbl, [signature |-> sig, has_lp |-> FALSE, has_swap |-> FALSE,
                      has_auth |-> TRUE])

RECURSIVE UpsertParsedAuthAll(_, _)
UpsertParsedAuthAll(tbl, rows) ==
    IF Len(rows) = 0 THEN tbl
    ELSE UpsertParsedAuthAll(UpsertParsedAuth(tbl, Head(rows).signature), Tail(rows))

AuthInit ==
    /\ authority_event = <<>>
    /\ apc = [a \in AuthParsers |-> "fetch"]
    /\ arows = [a \in AuthParsers |-> <<>>]

\* rows = await conn.fetch(SQL_PICK, BATCH), non-empty
AuthFetch(a) ==
    /\ apc[a] = "fetch"
    /\ AuthPick(tx_raw, parsed_sig, tx_queue, AUTH_BATCH) # <<>>
    /\ arows' = [arows EXCEPT ![a] = AuthPick(tx_raw, parsed_sig, tx_queue, AUTH_BATCH)]
    /\ apc' = [apc EXCEPT ![a] = "batch"]
    /\ UNCHANGED <<now, dbVars, detVars, execVars, exitVars, pipeVars, featVars, healthVars,
                   authority_event, runVars>>

\* the conn.transaction() block: for every fetched row SQL_INSERT_AUTH and
\* SQL_UPSERT_PARSED.  (of_sig: bookkeeping of the model, the signature of the
\* tx_raw row the event was written for; authority_event has no such column.)
\* A transaction of another instance that holds the parsed_sig row makes the
\* upsert wait for its commit and then take the DO UPDATE branch.
AuthBatch(a) ==
    /\ apc[a] = "batch"
    /\ authority_event' = authority_event \o
          [k \in 1..Len(arows[a]) |->
              [mint |-> "unknown", pool |-> arows[a][k].program_id,
               of_sig |-> arows[a][k].signature]]
    /\ parsed_sig' = UpsertParsedAuthAll(parsed_sig, arows[a])
    /\ arows' = [arows EXCEPT ![a] = <<>>]
    /\ apc' = [apc EXCEPT ![a] = "fetch"]
    /\ UNCHANGED <<now, dbVars, detVars, execVars, exitVars, tx_queue, tx_raw,
                   swap_event, lp_event, cursor_state, resVars, swapVars, lpVars,
                   runVars, featVars, healthVars>>

\* the transaction raises and is rolled back (which ends run()), or the
\* process stops; the instance is started again
AuthRestart(a) ==
    /\ apc[a] = "batch"
    /\ arows' = [arows EXCEPT ![a] = <<>>]
    /\ apc' = [apc EXCEPT ![a] = "fetch"]
    /\ UNCHANGED <<now, dbVars, detVars, execVars, exitVars, pipeVars, featVars, healthVars,
                   authority_event, runVars>>

-----------------------------------------------------------------------------
(* Runner (app/scf_runner.py): Orchestrator                                *)

Workers == {1, 2}

\* WorkerSpec.restart_backoff and WorkerSpec.max_backoff (add_worker leaves
\* the defaults)
restart_backoff == 2
max_backoff     == 60

\* number of exits of one child the model follows while the stop flag is clear
MaxExits == 7

Min(a, b) == IF a < b THEN a ELSE b
Max(a, b) == IF a > b THEN a ELSE b

\* the restart delay without the cap max_backoff (not the code)
RestartDelay_NoCap(backoff, n) == Max(2, backoff * 2^(n - 1))

\* delay = min(w.restart_backoff * (2 ** (w.exit_count - 1)), w.max_backoff)
\* delay = max(2.0, delay)
RestartDelay(backoff, n) == Max(2, Min(backoff * 2^(n - 1), max_backoff))

\* Orchestrator.__init__ and add_worker: no child yet, stop flag clear
RunnerInit ==
    /\ stop_flag = FALSE
    /\ running = [w \in Workers |-> FALSE]
    /\ exit_count = [w \in Workers |-> 0]
    /\ alive = [w \in Workers |-> FALSE]
    /\ wpc = [w \in Workers |-> "none"]
    /\ wdelay = [w \in Workers |-> 0]
    /\ stop_pc = "init"

\* start_all: _start_worker for every worker: the child is created,
\* w.running = True, and its _watch_worker task waits for the child to exit
StartAll ==
    /\ stop_pc = "init"
    /\ alive' = [w \in Workers |-> TRUE]
    /\ running' = [w \in Workers |-> TRUE]
    /\ wpc' = [w \in Workers |-> "wait"]
    /\ stop_pc' = "run"
    /\ UNCHANGED <<now, dbVars, detVars, execVars, exitVars, pipeVars, featVars, healthVars, authVars,
                   stop_flag, exit_count, wdelay>>

\* the child process of w ends: by itself, or on the signal stop_all sent
ChildExit(w) ==
    /\ alive[w]
    /\ stop_flag \/ exit_count[w] < MaxExits
    /\ alive' = [alive EXCEPT ![w] = FALSE]
    /\ UNCHANGED <<now, dbVars, detVars, execVars, exitVars, pipeVars, featVars, healthVars, authVars,
                   stop_flag, running, exit_count, wpc, wdelay, stop_pc>>

\* _watch_worker: rc = await w.proc.wait() returns; w.running = False;
\* w.exit_count += 1; if not self._stop.is_set(): compute delay and sleep
WatchExit(w) ==
    /\ wpc[w] = "wait"
    /\ ~alive[w]
    /\ stop_pc # "done"
    /\ running' = [running EXCEPT ![w] = FALSE]
    /\ exit_count' = [exit_count EXCEPT ![w] = @ + 1]
    /\ IF ~stop_flag
       THEN /\ wdelay' = [wdelay EXCEPT ![w] =
                            RestartDelay(restart_backoff, exit_count[w] + 1)]
            /\ wpc' = [wpc EXCEPT ![w] = "sleep"]
       ELSE /\ wpc' = [wpc EXCEPT ![w] = "none"]
            /\ UNCHANGED wdelay
    /\ UNCHANGED <<now, dbVars, detVars, execVars, exitVars, pipeVars, featVars, healthVars, authVars,
                   stop_flag, alive, stop_pc>>

\* _watch_worker: await asyncio.sleep(delay) returns; await
\* self._start_worker(w), which creates the child, sets w.running = True and
\* creates the next _watch_worker task.  When run_full has returned,
\* asyncio.run has cancelled the tasks that were still sleeping.
WatchRestart(w) ==
    /\ wpc[w] = "sleep"
    /\ stop_pc # "done"
    /\ alive' = [alive EXCEPT ![w] = TRUE]
    /\ running' = [running EXCEPT ![w] = TRUE]
    /\ wpc' = [wpc EXCEPT ![w] = "wait"]
    /\ UNCHANGED <<now, dbVars, detVars, execVars, exitVars, pipeVars, featVars, healthVars, authVars,
                   stop_flag, exit_count, wdelay, stop_pc>>

\* stop_all: self._stop.set(); w.proc.terminate() for every worker with
\* w.proc and w.running (the children end in their own time: ChildExit);
\* then await asyncio.sleep(2.0)
StopSet ==
    /\ stop_pc = "run"
    /\ stop_flag' = TRUE
    /\ stop_pc' = "grace"
    /\ UNCHANGED <<now, dbVars, detVars, execVars, exitVars, pipeVars, featVars, healthVars, authVars,
                   running, exit_count, alive, wpc, wdelay>>

\* stop_all after the sleep: w.proc.kill() for every worker with w.proc and
\* w.running; stop_all returns
StopKill ==
    /\ stop_pc = "grace"
    /\ alive' = [w \in Workers |-> IF running[w] THEN FALSE ELSE alive[w]]
    /\ stop_pc' = "done"
    /\ UNCHANGED <<now, dbVars, detVars, execVars, exitVars, pipeVars, featVars, healthVars, authVars,
                   stop_flag, running, exit_count, wpc, wdelay>>

-----------------------------------------------------------------------------
(* Runner: the health loop of run_full (app/scf_runner.py)                 *)

HealthInit ==
    /\ hpc = "loop"
    /\ hsnap = "none"
    /\ stop_ev = FALSE

\* SIGINT / SIGTERM: the handler sets stop_ev
SignalStop ==
    /\ ~stop_ev
    /\ stop_ev' = TRUE
    /\ UNCHANGED <<now, dbVars, detVars, execVars, exitVars, pipeVars, authVars, runVars,
                   featVars, hpc, hsnap>>

\* while not stop_ev.is_set(), after start_all
HealthLoop ==
    /\ stop_pc = "run"
    /\ hpc = "loop"
    /\ hpc' = IF stop_ev THEN "exit" ELSE "tick"
    /\ UNCHANGED <<now, dbVars, detVars, execVars, exitVars, pipeVars, authVars, runVars,
                   featVars, hsnap, stop_ev>>

\* health.tick(): the connection and every query succeed
HealthTickOk ==
    /\ hpc = "tick"
    /\ hsnap' = "OK"
    /\ hpc' = "sleep"
    /\ UNCHANGED <<now, dbVars, detVars, execVars, exitVars, pipeVars, authVars, runVars,
                   featVars, stop_ev>>

\* health.tick(): asyncpg.connect raises; except Exception sets the snapshot
\* and returns
HealthConnectFail ==
    /\ hpc = "tick"
    /\ hsnap' = "DOWN"
    /\ hpc' = "sleep"
    /\ UNCHANGED <<now, dbVars, detVars, execVars, exitVars, pipeVars, authVars, runVars,
                   featVars, stop_ev>>

\* health.tick(): a fetchval raises; the try has a finally and no except, so
\* the exception leaves tick() and the while loop of run_full
HealthQueryFail ==
    /\ hpc = "tick"
    /\ hpc' = "raised"
    /\ UNCHANGED <<now, dbVars, detVars, execVars, exitVars, pipeVars, authVars, runVars,
                   featVars, hsnap, stop_ev>>

\* health.print(); await asyncio.sleep(5.0)
HealthSleep ==
    /\ hpc = "sleep"
    /\ hpc' = "loop"
    /\ UNCHANGED <<now, dbVars, detVars, execVars, exitVars, pipeVars, authVars, runVars,
                   featVars, hsnap, stop_ev>>

\* finally: await orch.stop_all(), once the loop is left
StopAfterLoop ==
    /\ hpc \in {"exit", "raised"}
    /\ StopSet

HealthStep == \/ HealthLoop \/ HealthTickOk \/ HealthConnectFail
              \/ HealthQueryFail \/ HealthSleep

-----------------------------------------------------------------------------
(* Feature worker (app/feature_worker.py)                                  *)

\* INTERVAL '36 hours' of SQL_POOLS and SQL_SERIES, in units of the clock
SERIES_WINDOW == 36
\* features are fixed-point numbers of four decimals
FEAT_SCALE == 10000

RECURSIVE SortByTs(_)
\* ORDER BY ts ASC (ties in table order)
SortByTs(s) ==
    IF Len(s) = 0 THEN <<>>
    ELSE LET m == CHOOSE i \in 1..Len(s) :
                    \A k \in 1..Len(s) :
                        \/ s[i].ts < s[k].ts
                        \/ (s[i].ts = s[k].ts /\ i <= k)
         IN  <<s[m]>> \o SortByTs(SelectSeqIdx(s, (1..Len(s)) \ {m}))

\* SQL_POOLS
ActivePools(tbl, t) ==
    {tbl[i].pool : i \in {k \in 1..Len(tbl) : tbl[k].ts > t - SERIES_WINDOW}}

\* SQL_SERIES
Series(tbl, pool, t) ==
    SortByTs(SelectSeq(tbl, LAMBDA r : r.pool = pool /\ r.ts > t - SERIES_WINDOW))

RECURSIVE SumSeq(_)
SumSeq(s) == IF Len(s) = 0 THEN 0 ELSE Head(s) + SumSeq(Tail(s))

\* abs(p - prev) of every price after the first
true_range_series(prices) ==
    [i \in 1..(Len(prices) - 1) |-> Abs(prices[i + 1] - prices[i])]

\* (atr / meanp) * 100.0, None for fewer than 3 prices or a mean <= 0; the
\* percentage is kept to two decimals
atr_pct(prices) ==
    IF Len(prices) < 3 THEN NullV
    ELSE IF SumSeq(prices) <= 0 THEN NullV
    ELSE NumV(((SumSeq(true_range_series(prices)) * Len(prices) * 100 * 100)
                  \div ((Len(prices) - 1) * SumSeq(prices))) * (FEAT_SCALE \div 100))

\* the cumulative series of sign(side) * base_amt
CvdSeries(sides, base_amts) ==
    [i \in 1..Len(sides) |->
        SumSeq([k \in 1..i |->
            (IF sides[k] > 0 THEN 1 ELSE IF sides[k] < 0 THEN -1 ELSE 0) * base_amts[k]])]

\* (series[-1] - series[max(0, len(series)-5)]) / 5.0, None for fewer than 3
\* entries; a 0-based index k of the code is k + 1 here
cvd_slope(sides, base_amts) ==
    LET series == CvdSeries(sides, base_amts)
        n == Len(series)
    IN  IF n < 3 THEN NullV
        ELSE NumV(((series[n] - series[Max(0, n - 5) + 1]) * FEAT_SCALE) \div 5)

\* prices = [float(r['price']) for r in rows if r['price'] and float(r['price']) > 0]
PositivePrices(rows) ==
    LET kept == SelectSeq(rows, LAMBDA r : r.price > 0)
    IN  [i \in 1..Len(kept) |-> kept[i].price]

\* the values compute_for_pool passes to SQL_UPSERT for the rows of a pool
FeatureRow(pool, rows, t) ==
    LET atr15 == atr_pct(PositivePrices(rows))
        atr24 == atr_pct(PositivePrices(rows))
        truthy(v) == v.t = "num" /\ v.v # 0
    IN  [pool |-> pool, ts |-> t,
         atr_pct_15m |-> atr15, atr_pct_24h |-> atr24,
         vc_ratio |-> IF truthy(atr15) /\ truthy(atr24) /\ atr24.v > 0
                      THEN NumV(((atr15.v * 100) \div atr24.v) * (FEAT_SCALE \div 100))
                      ELSE NullV,
         cvd_slope_5m |-> cvd_slope([i \in 1..Len(rows) |-> rows[i].side],
                                    [i \in 1..Len(rows) |-> rows[i].base_amt]),
         obs |-> NumV(Len(rows))]

\* SQL_UPSERT: INSERT ... ON CONFLICT(pool) DO UPDATE SET the listed columns
UpsertFeatures(tbl, new) ==
    IF \E i \in 1..Len(tbl) : tbl[i].pool = new.pool
    THEN [i \in 1..Len(tbl) |->
            IF tbl[i].pool = new.pool
            THEN [k \in DOMAIN tbl[i] \cup DOMAIN new |->
                     IF k \in DOMAIN new THEN new[k] ELSE tbl[i][k]]
            ELSE tbl[i]]
    ELSE Append(tbl, new)

FeatInit ==
    /\ fpc = "pools"
    /\ fqueue = {}
    /\ frows = <<>>

\* pools = await conn.fetch(SQL_POOLS), at least one pool
FeatPools ==
    /\ fpc = "pools"
    /\ ActivePools(swap_event, now) # {}
    /\ fqueue' = ActivePools(swap_event, now)
    /\ fpc' = "series"
    /\ UNCHANGED <<now, dbVars, detVars, execVars, exitVars, pipeVars, authVars, runVars, healthVars,
                   frows>>

\* for r in pools (in the order the store returned them): rows = await
\* conn.fetch(SQL_SERIES, pool_id); return on fewer than 5 rows or fewer than
\* 5 positive prices.  After the last pool the loop sleeps.
FeatSeries ==
    /\ fpc = "series"
    /\ IF fqueue = {}
       THEN /\ fpc' = "pools"
            /\ UNCHANGED <<fqueue, frows>>
       ELSE \E pool \in fqueue :
               LET rows == Series(swap_event, pool, now)
               IN  IF Len(rows) < 5 \/ Len(PositivePrices(rows)) < 5
                   THEN /\ fqueue' = fqueue \ {pool}
                        /\ UNCHANGED <<fpc, frows>>
                   ELSE /\ frows' = rows
                        /\ fpc' = "upsert"
                        /\ UNCHANGED fqueue
    /\ UNCHANGED <<now, dbVars, detVars, execVars, exitVars, pipeVars, authVars, runVars, healthVars>>

\* await conn.execute(SQL_UPSERT, pool_id, datetime.now(timezone.utc), ...)
FeatUpsert ==
    /\ fpc = "upsert"
    /\ features_latest' = UpsertFeatures(features_latest,
                                         FeatureRow(frows[1].pool, frows, now))
    /\ fqueue' = fqueue \ {frows[1].pool}
    /\ frows' = <<>>
    /\ fpc' = "series"
    /\ UNCHANGED <<now, detector_signal, detector_cursor, position, fill, exit_event,
                   latest_price, detVars, execVars, exitVars, pipeVars, authVars, runVars, healthVars>>

FeatStep == FeatPools \/ FeatSeries \/ FeatUpsert

-----------------------------------------------------------------------------
(* Specifications                                                          *)

\* The state after start-up.  F: the feature tables, S: the detector_signal
\* tables and P: the position tables the store may hold when the workers start;
\* V: the executor variants deployed; C: the partial-exit settings deployed.
StoreInit(F, S, P, V, C) ==
    /\ now = 0
    /\ features_latest \in F
    /\ detector_signal \in S
    /\ detector_cursor = -1
    /\ position \in P
    /\ fill = <<>>
    /\ exit_event = <<>>
    /\ latest_price = [p \in {"AAA", "BBB"} |-> 0]
    /\ dpc = [d \in Detectors |-> "poll"]
    /\ drows = [d \in Detectors |-> <<>>]
    /\ dstmt = [d \in Detectors |-> NoStmt]
    /\ execVariant \in V
    /\ epc = [e \in Executors |-> "fetch"]
    /\ esignals = [e \in Executors |-> <<>>]
    /\ enew = [e \in Executors |-> 0]
    /\ partials \in C
    /\ xpc = "idle"
    /\ xqueue = <<>>
    /\ xpx = 0
    /\ xtaken = {}
    /\ xside = "TP"
    /\ xidx = 1
    /\ xqty = 0
    /\ xreason = ""
    /\ xfaults = 0

\* the ingestion side after start-up.  Q: the tx_queue tables and R: the tx_raw
\* tables the store may hold when the workers start
PipeInit(Q, R) ==
    /\ tx_queue \in Q
    /\ tx_raw \in R
    /\ parsed_sig = <<>>
    /\ swap_event = <<>>
    /\ lp_event = <<>>
    /\ cursor_state = <<>>
    /\ rpc = [r \in Resolvers |-> "claim"]
    /\ rcur = [r \in Resolvers |-> NoRow]
    /\ rerr = [r \in Resolvers |-> 0]
    /\ spc = "fetch"
    /\ swap_last_slot = PersistedSlot(cursor_state, "parser_swap")
    /\ swap_rows = <<>>
    /\ sfaults = 0
    /\ lpc = "fetch"
    /\ lp_last_slot = MaxSlot(lp_event)
    /\ lp_rows = <<>>
    /\ AuthInit
    /\ RunnerInit
    /\ FeatInit
    /\ HealthInit

InitWith(F, S, P, V, C) == StoreInit(F, S, P, V, C) /\ PipeInit({<<>>}, {<<>>})

DetStep(d) == DetFetch(d) \/ DetRow(d) \/ DetInsert(d) \/ DetCursor(d) \/ DetCrash(d)
ExecStep(e) == ExecFetch(e) \/ ExecExists(e) \/ ExecInsertPosition(e)
                  \/ ExecInsertFill(e) \/ ExecCrash(e)

ExitStep == \/ ExitFetch \/ ExitNext \/ ExitPartialMeta \/ ExitPartialLevel
            \/ ExitPartialFill \/ ExitPartialSize \/ ExitPartialTag
            \/ ExitPartialEvent \/ ExitCloseDecide \/ ExitCloseFill
            \/ ExitCloseState \/ ExitCloseEvent \/ ExitFault
SwapStep == \E pool \in SwapPools, px \in SwapPrices : SwapArrives(pool, px)

SmallFeatures == { <<RowPass("AAA"), RowFailWC("CCC")>> }
Signal(id, pool, t) == [id |-> id, pool |-> pool, signal_type |-> SIGNAL_TYPE,
                        reason |-> SCF5_REASON, created_at |-> t]
NoPartials == { [TP |-> <<>>, SL |-> <<>>] }
OneVariant(v) == { [e \in Executors |-> v] }
AnyVariant == { [e \in Executors |-> v] : v \in ExecVariants }

\* the pipeline detector -> executor, one instance of each
Init == InitWith(SmallFeatures, {<<>>}, {<<>>}, AnyVariant, NoPartials)
Next == Tick \/ DetStep(1) \/ ExecStep(1)
Spec == Init /\ [][Next]_vars

\* one detector alone / two detectors on the same store
InitDet == InitWith(FeatureTables, {<<>>}, {<<>>}, OneVariant("paper"), NoPartials)
NextDet == Tick \/ DetStep(1)
SpecDet == InitDet /\ [][NextDet]_vars
NextDet2 == Tick \/ \E d \in Detectors : DetStep(d)
SpecDet2 == InitDet /\ [][NextDet2]_vars

\* two executors on a store that holds signals of the detector
InitExec2 == InitWith(SmallFeatures, {<<Signal(1, "AAA", 0), Signal(2, "BBB", 0)>>},
                      {<<>>}, AnyVariant, NoPartials)
NextExec2 == Tick \/ \E e \in Executors : ExecStep(e)
SpecExec2 == InitExec2 /\ [][NextExec2]_vars

\* one detector on a store whose features_latest holds one row, drawn from
\* every combination of a NULL, a text that is no number, a number on the
\* threshold and a number just beyond it for each of the five inputs
RuleValues(onBound, beyond) == {NullV, TextV, NumV(onBound), NumV(beyond)}
RuleRows ==
    { [pool |-> "AAA", atr15 |-> vc, cvd_slope_1m |-> ofs, depth_1p0 |-> lt,
       wc_quality_arrivals |-> wc, watchers_slope |-> rq] :
        vc  \in RuleValues(VC_MAX, VC_MAX + 1),
        ofs \in RuleValues(-OFS_MAX, OFS_MAX + 1),
        lt  \in RuleValues(LT_MAX, LT_MAX + 1),
        wc  \in RuleValues(WC_MIN, WC_MIN - 1000),
        rq  \in RuleValues(RQ_MAX, RQ_MAX + 1) }
InitRule == InitWith({<<row>> : row \in RuleRows}, {<<>>}, {<<>>},
                     OneVariant("paper"), NoPartials)
NextRule == Tick \/ DetStep(1)
SpecRule == InitRule /\ [][NextRule]_vars

\* one detector whose statements can raise; DetCrash from "ended" is the
\* supervisor starting the process again
NextLoop == Tick \/ DetStep(1) \/ DetRaise(1)
SpecLoop == InitDet /\ [][NextLoop]_vars

\* the exit worker on a store that holds an OPEN position, with swap prices
\* arriving
InitExit == InitWith(SmallFeatures, {<<>>}, {<<SeedPosition(1, "AAA")>>},
                     OneVariant("paper"), PartialSpecs)
NextExit == SwapStep \/ ExitStep
SpecExit == InitExit /\ [][NextExit]_vars

\* the same next to one paper executor that opens a position for a signal
InitTrade == InitWith(SmallFeatures, {<<Signal(1, "AAA", 0)>>},
                      {<<SeedPosition(1, "AAA")>>}, OneVariant("paper"),
                      {[TP |-> <<Item(150, 25), Item(200, 50)>>, SL |-> <<Item(50, 50)>>]})
NextTrade == SwapStep \/ ExitStep \/ ExecStep(1)
SpecTrade == InitTrade /\ [][NextTrade]_vars

\* the trading side idle, for the specifications of the ingestion side
TradeIdle == StoreInit(SmallFeatures, {<<>>}, {<<>>}, OneVariant("paper"), NoPartials)

IngestStep == \E n \in Notifications : Ingest(n)
ResStep(r) == \/ ResClaim(r) \/ ResClaimUpdate(r) \/ ResFetchOk(r) \/ ResFetchFail(r)
              \/ ResStore(r) \/ ResStoreFail(r) \/ ResFail(r)

\* the ingestor and the resolver instances on an empty store
InitResolve == TradeIdle /\ PipeInit({<<>>}, {<<>>})
NextResolve == IngestStep \/ \E r \in Resolvers : (ResStep(r) \/ ResCrash(r))
SpecResolve == InitResolve /\ [][NextResolve]_vars

\* the same where a running resolver instance keeps taking steps: the event
\* loop runs every instance that is not stopped; a stop is never forced
SpecResolveFair ==
    SpecResolve /\ \A r \in Resolvers : WF_vars(ResStep(r))

SwapParserStep == SwapFetch \/ SwapRow \/ SwapSetCursor \/ SwapRestart
LpStep == LpFetch \/ LpBatch \/ LpRestart

\* tx_raw tables the parsers can find: rows stored by the resolver
\* (RpcResponse) and rows that hold the transaction at top level; two
\* transactions can share a slot
RawTables ==
    { <<RawRow("s2", 2, FlatPayload("s2")), RawRow("s4", 1, FlatPayload("s4")),
        RawRow("s3", 2, FlatPayload("s3")), RawRow("s1", 3, FlatPayload("s1"))>>,
      <<RawRow("s4", 1, RpcResponse("s4")), RawRow("s3", 2, RpcResponse("s3")),
        RawRow("s2", 2, RpcResponse("s2"))>> }

\* the swap parser and the LP parser on a store that holds tx_raw rows
InitParse == TradeIdle /\ PipeInit({<<>>}, RawTables)
NextParse == SwapParserStep \/ LpStep
SpecParse == InitParse /\ [][NextParse]_vars

\* two authority parser instances, next to the LP parser, on a store that
\* holds tx_raw rows
AuthStep(a) == AuthFetch(a) \/ AuthBatch(a) \/ AuthRestart(a)
InitAuth == TradeIdle /\ PipeInit({<<>>}, RawTables)
NextAuth == LpStep \/ \E a \in AuthParsers : AuthStep(a)
SpecAuth == InitAuth /\ [][NextAuth]_vars

\* the runner: start_all, the children and their watcher tasks, stop_all
WorkerStep(w) == ChildExit(w) \/ WatchExit(w) \/ WatchRestart(w)
InitRun == TradeIdle /\ PipeInit({<<>>}, {<<>>})
NextRun == StartAll \/ StopSet \/ StopKill \/ \E w \in Workers : WorkerStep(w)
SpecRun == InitRun /\ [][NextRun]_vars

\* the LP parser next to a resolver instance that still has a signature of an
\* earlier slot to resolve
InitFeed == TradeIdle /\
    PipeInit({<<[signature |-> "s1", program_id |-> "RAY", slot |-> 1,
                 status |-> "queued", retries |-> 0, last_error |-> 0]>>},
             {<<RawRow("s2", 2, RpcResponse("s2")), RawRow("s3", 3, RpcResponse("s3"))>>})
NextFeed == LpStep \/ ResStep(1) \/ ResCrash(1)
SpecFeed == InitFeed /\ [][NextFeed]_vars

\* the same where the LP parser and the resolver, while they are not stopped,
\* keep taking steps
SpecFeedFair ==
    SpecFeed /\ WF_vars(LpFetch \/ LpBatch) /\ WF_vars(ResStep(1))

-----------------------------------------------------------------------------
(* Properties                                                              *)

\* the positions whose meta.signal_id is the string sid
PositionsOfSignal(sid) ==
    {j \in 1..Len(position) :
        /\ "signal_id" \in DOMAIN position[j].meta
        /\ position[j].meta["signal_id"] = sid}

\* the positions written by an executor
ExecutorPositions ==
    {j \in 1..Len(position) :
        /\ "source" \in DOMAIN position[j].meta
        /\ position[j].meta["source"] = "detector_signal"}

EntryFills(j) == {k \in 1..Len(fill) : fill[k].pos_id = j /\ fill[k].side = "entry"}

\* C1: with one executor (stopping and restarting between any two of its
\* statements), every DetectorSignal has at most one Position whose
\* meta.signal_id is the string form of its id.
C1_SignalPositionExclusive ==
    \A i \in 1..Len(detector_signal) :
        Cardinality(PositionsOfSignal(Str(detector_signal[i].id))) <= 1

\* C1 witness: the executor was interrupted after INSERT_POSITION_SQL (the
\* position has no entry fill), has polled again and is about to run the
\* exists check for the same signal.
C1_Witness ==
    /\ epc[1] = "exists"
    /\ Len(esignals[1]) > 0
    /\ \E j \in PositionsOfSignal(Str(Head(esignals[1]).id)) : EntryFills(j) = {}

\* C4: with one detector, two DetectorSignal rows of the same (pool,
\* signal_type) are never within DEDUP_SEC of each other; and once a poll has
\* completed, every pool whose row passes the rule has a DetectorSignal, so
\* repeated polls inside the window over the unchanged snapshot leave exactly
\* one row for the pool in that window.
C4_DedupWindow ==
    /\ \A i, j \in 1..Len(detector_signal) :
        ( /\ i < j
          /\ detector_signal[i].pool = detector_signal[j].pool
          /\ detector_signal[i].signal_type = detector_signal[j].signal_type )
        => Abs(detector_signal[j].created_at - detector_signal[i].created_at) > DEDUP_SEC
    /\ detector_cursor >= 0 =>
        \A r \in 1..Len(features_latest) :
            (features_latest[r].pool # "" /\ rule_pass(features_latest[r])[1])
            => \E i \in 1..Len(detector_signal) :
                  /\ detector_signal[i].pool = features_latest[r].pool
                  /\ detector_signal[i].signal_type = SIGNAL_TYPE

\* C4 witness: a poll has completed, and in a later poll inside the window the
\* guarded insert for a pool that already has a signal found the recent row.
C4_Witness ==
    /\ detector_cursor >= 0
    /\ dpc[1] = "insert"
    /\ dstmt[1].recent
    /\ \E i \in 1..Len(detector_signal) :
          /\ detector_signal[i].pool = dstmt[1].pool
          /\ dstmt[1].at - detector_signal[i].created_at <= DEDUP_SEC
    /\ \E i, j \in 1..Len(detector_signal) :
          i < j /\ detector_signal[i].pool = detector_signal[j].pool

\* C5 (as claimed): with two executors, under every interleaving at most one
\* Position is created per DetectorSignal.
C5_TwoExecutorsOnePosition ==
    \A j, k \in 1..Len(position) :
        ( /\ "signal_id" \in DOMAIN position[j].meta
          /\ "signal_id" \in DOMAIN position[k].meta
          /\ position[j].meta["signal_id"] = position[k].meta["signal_id"] )
        => j = k

\* C5 (amended): with two executors each instance opens at most one Position
\* per DetectorSignal, so a signal has at most as many Positions as there are
\* executor instances.
C5_AtMostOnePerInstance ==
    \A i \in 1..Len(detector_signal) :
        Cardinality(PositionsOfSignal(Str(detector_signal[i].id)))
            <= Cardinality(Executors)

\* C5 witness: both executors passed the exists check before either inserted,
\* and the signal now has two Positions.
C5_Witness ==
    \E i \in 1..Len(detector_signal) :
        Cardinality(PositionsOfSignal(Str(detector_signal[i].id))) = 2

\* C6 (as claimed): with two detectors, two DetectorSignal rows of the same
\* (pool, signal_type) are never within DEDUP_SEC of each other.
C6_TwoDetectorsDedup ==
    \A i, j \in 1..Len(detector_signal) :
        ( /\ i # j
          /\ detector_signal[i].pool = detector_signal[j].pool
          /\ detector_signal[i].signal_type = detector_signal[j].signal_type )
        => \/ detector_signal[j].created_at - detector_signal[i].created_at > DEDUP_SEC
           \/ detector_signal[i].created_at - detector_signal[j].created_at > DEDUP_SEC

\* partial SELL fills / partial exit events of position j for level lv
PartialFills(j, lv) ==
    {k \in 1..Len(fill) :
        /\ fill[k].pos_id = j
        /\ fill[k].side = "SELL"
        /\ fill[k].lvl_tag \in {PartialTag("TP", lv), PartialTag("SL", lv)}}

PartialEvents(j, lv) ==
    {k \in 1..Len(exit_event) :
        /\ exit_event[k].pos_id = j
        /\ exit_event[k].reason \in {"TP_PARTIAL", "SL_PARTIAL"}
        /\ exit_event[k].meta.level = lv}

ConfiguredLevels ==
    {PartialList("TP")[i].level : i \in 1..Len(PartialList("TP"))}
        \cup {PartialList("SL")[i].level : i \in 1..Len(PartialList("SL"))}

\* C2 (as claimed): with one exit worker, for every Position and every
\* configured partial level at most one partial SELL Fill and at most one
\* *_PARTIAL ExitEvent of that level is ever recorded.
C2_PartialOncePerLevel ==
    \A j \in 1..Len(position) : \A lv \in ConfiguredLevels :
        /\ Cardinality(PartialFills(j, lv)) <= 1
        /\ Cardinality(PartialEvents(j, lv)) <= 1

\* C3 (as claimed): a partial exit is all-or-nothing.  Stated at the states
\* where the exit worker is between ticks: a partial SELL Fill of a level
\* exists iff the level's tag is in Position.meta iff its ExitEvent exists.
C3_PartialAtomic ==
    xpc = "idle" =>
        \A j \in 1..Len(position) : \A side \in {"TP", "SL"} :
            \A i \in 1..Len(PartialList(side)) :
                LET lv  == PartialList(side)[i].level
                    tag == PartialTag(side, lv)
                    hasFill  == \E k \in 1..Len(fill) :
                                   fill[k].pos_id = j /\ fill[k].lvl_tag = tag
                    hasTag   == tag \in DOMAIN position[j].meta
                    hasEvent == \E k \in 1..Len(exit_event) :
                                   /\ exit_event[k].pos_id = j
                                   /\ exit_event[k].reason = side \o "_PARTIAL"
                                   /\ exit_event[k].meta.level = lv
                IN  (hasFill <=> hasTag) /\ (hasTag <=> hasEvent)

CloseEvents(j) ==
    {k \in 1..Len(exit_event) :
        exit_event[k].pos_id = j /\ exit_event[k].reason \in {"TP_HIT", "SL_HIT"}}

\* C7 (as claimed): every CLOSED Position has exactly one TP_HIT / SL_HIT
\* ExitEvent and no OPEN Position has one.  Stated at the states where the
\* exit worker is between ticks (so also after a tick that was cut short).
C7_ClosedHasOneExit ==
    xpc = "idle" =>
        \A j \in 1..Len(position) :
            /\ position[j].state = "CLOSED" => Cardinality(CloseEvents(j)) = 1
            /\ position[j].state = "OPEN" => CloseEvents(j) = {}

\* C8 (as claimed): every Position opened by the executor is in the state the
\* exit worker selects as open (SQL_OPEN_POSITIONS) until it is CLOSED, so the
\* exit worker scans it.
C8_ExecutorPositionsScanned ==
    \A j \in ExecutorPositions :
        IsOpenState(position[j].state) \/ position[j].state = "CLOSED"

\* C9 (as claimed): every Position of the paper executor has state=OPEN,
\* status=open, size=0, entry_px=1.0, slippage_bps=0 and meta = {signal_id,
\* source: "detector_signal", mode: "paper"}, and once the executor has
\* finished the signal, one entry Fill with px=1.0, qty=0 and no tx.
C9_PaperPositionShape ==
    \A j \in ExecutorPositions :
        ( "mode" \in DOMAIN position[j].meta /\ position[j].meta["mode"] = "paper" )
        => /\ position[j].state = "OPEN"
           /\ position[j].status = "open"
           /\ position[j].size_sol = 0
           /\ position[j].entry_px = 100
           /\ position[j].slippage_bps = 0
           /\ \E i \in 1..Len(detector_signal) :
                 position[j].meta = [signal_id |-> Str(detector_signal[i].id),
                                     source |-> "detector_signal", mode |-> "paper"]
           /\ epc[1] = "fetch" =>
                 /\ Cardinality(EntryFills(j)) = 1
                 /\ \A k \in EntryFills(j) :
                       fill[k].px = 100 /\ fill[k].qty = 0 /\ fill[k].tx = "NULL"

\* C10 (as claimed): every Position created by the executor has exactly one
\* entry Fill with px = entry_px and qty = size.  Stated at the states where
\* the executor is between ticks (so also after a tick that was cut short).
C10_EntryFillPresent ==
    epc[1] = "fetch" =>
        \A j \in ExecutorPositions :
            /\ Cardinality(EntryFills(j)) = 1
            /\ \A k \in EntryFills(j) :
                  fill[k].px = position[j].entry_px /\ fill[k].qty = position[j].size_sol

\* the tx_queue rows of signature sig
QueueRows(sig) == {i \in 1..Len(tx_queue) : tx_queue[i].signature = sig}

\* C11 (as claimed): while the resolver instances that are not stopped keep
\* running, no TxQueue row remains in status resolving forever (so that it can
\* reach resolved or error), also after an instance stopped between claiming
\* the row and recording the outcome.
C11_NoRowStaysResolving ==
    \A s \in Sigs :
        (\E i \in QueueRows(s) : tx_queue[i].status = "resolving")
            ~> (\E i \in QueueRows(s) : tx_queue[i].status # "resolving")

\* a step that records a failed resolve attempt on row i of tx_queue
AttemptFailed(i) == tx_queue'[i].retries # tx_queue[i].retries

\* C12 (as claimed): a failed resolve attempt increments retries by one, and
\* the row's status becomes error exactly when the incremented count is >= 5
\* (otherwise queued), so that a signature whose fetch always fails is in
\* error after 5 attempts; last_error holds at most 255 characters.
C12_ErrorAtFiveRetries ==
    [][\A i \in 1..Len(tx_queue) :
          AttemptFailed(i) =>
              /\ tx_queue'[i].retries = tx_queue[i].retries + 1
              /\ tx_queue'[i].status =
                    (IF tx_queue'[i].retries >= 5 THEN "error" ELSE "queued")
              /\ tx_queue'[i].last_error <= 255]_vars

\* C12 (amended): a failed resolve attempt increments retries by one, and the
\* row's status becomes error exactly when the count before the increment is
\* >= 5 (otherwise queued); a signature whose fetch always fails is in error
\* after 6 attempts, and every row in error has retries = 6; last_error holds
\* at most 255 characters.
C12_ErrorAfterFiveRetries ==
    /\ [](\A i \in 1..Len(tx_queue) :
            /\ tx_queue[i].status = "error" <=> tx_queue[i].retries = 6
            /\ tx_queue[i].retries <= 6)
    /\ [][\A i \in 1..Len(tx_queue) :
            AttemptFailed(i) =>
                /\ tx_queue'[i].retries = tx_queue[i].retries + 1
                /\ tx_queue'[i].status =
                      (IF tx_queue[i].retries >= 5 THEN "error" ELSE "queued")
                /\ tx_queue'[i].last_error <= 255]_vars

\* C12 witness: a row went to error on its 6th failed attempt, whose error
\* text was longer than 255 characters.
C12_Witness ==
    \E i \in 1..Len(tx_queue) :
        /\ tx_queue[i].status = "error"
        /\ tx_queue[i].retries = 6
        /\ tx_queue[i].last_error = 255

\* C13: with two resolver instances, under every interleaving of their claim
\* statements no TxQueue row is held by two instances, a row an instance holds
\* after its claim committed is in status resolving, and an instance whose
\* claim finds a queued row that no other claim has locked is never kept
\* waiting by the rows that are locked.
C13_NoDoubleClaim ==
    /\ \A r, o \in Resolvers :
          (r # o /\ rcur[r] # NoRow) => rcur[r].signature # rcur[o].signature
    /\ \A r \in Resolvers :
          rpc[r] \in {"fetch", "store", "fail"} =>
              \E i \in QueueRows(rcur[r].signature) : tx_queue[i].status = "resolving"
    /\ \A r \in Resolvers :
          ( /\ rpc[r] = "claim"
            /\ \E i \in 1..Len(tx_queue) :
                  /\ tx_queue[i].status = "queued"
                  /\ tx_queue[i].signature \notin LockedByOthers(r) )
          => ENABLED ResClaim(r)

\* C13 witness: the claim statements of both instances are in flight; the
\* second one skipped the row the first one locked and locked the next row.
C13_Witness ==
    /\ rpc[1] = "locked"
    /\ rpc[2] = "locked"
    /\ rcur[1].signature # rcur[2].signature

\* the tx_raw rows of signature sig
RawRows(sig) == {i \in 1..Len(tx_raw) : tx_raw[i].signature = sig}

\* C14: TxQueue and TxRaw hold at most one row per signature, and handling a
\* notification leaves every row that tx_queue already holds as it is (status,
\* retries, slot and program_id), so a notification for a signature that is
\* present changes nothing and never resets a row to queued.
C14_OneRowPerSignature ==
    /\ [](\A s \in Sigs : Cardinality(QueueRows(s)) <= 1 /\ Cardinality(RawRows(s)) <= 1)
    /\ [][IngestStep =>
            /\ Len(tx_queue') >= Len(tx_queue)
            /\ SubSeq(tx_queue', 1, Len(tx_queue)) = tx_queue
            /\ (\E n \in Notifications :
                    Ingest(n) /\ HasSignature(tx_queue, n.signature))
               => tx_queue' = tx_queue]_vars

\* C14 witness: the row of s1 was ingested from the notification of slot 1
\* and has since been resolved into tx_raw, and a second notification for s1
\* (slot 3) can still arrive.
C14_Witness ==
    /\ \E i \in QueueRows("s1") : tx_queue[i].status = "resolved" /\ tx_queue[i].slot = 1
    /\ RawRows("s1") # {}

\* the last_slot persisted under the cursor name parser_swap
SwapCursor == PersistedSlot(cursor_state, "parser_swap")

\* C15: while a swap parser process runs, the slot of each row it processes
\* is not below the slot of the row before it (last_slot never decreases
\* between two restarts), and the last_slot persisted under parser_swap never
\* decreases, over every sequence of batches and restarts.
C15_SwapSlotsMonotone ==
    [][/\ sfaults' = sfaults => swap_last_slot' >= swap_last_slot
       /\ SwapCursor' >= SwapCursor]_vars

\* C15 witness: the parser persisted a cursor, was restarted, and has since
\* processed a row of a later slot that is not persisted yet.
C15_Witness ==
    /\ sfaults >= 1
    /\ SwapCursor > 0
    /\ swap_last_slot > SwapCursor

\* C16 (as claimed): the LP parser's last_slot never decreases, also over a
\* restart: the value it resumes from is not below the value it had reached.
C16_LpLastSlotMonotone == [][lp_last_slot' >= lp_last_slot]_vars

\* the parsed_sig rows of signature sig
ParsedRows(sig) == {i \in 1..Len(parsed_sig) : parsed_sig[i].signature = sig}

\* C17 (as claimed): every row of TxRaw is eventually processed by the LP
\* parser (which marks each row it processes in ParsedSig), whatever the
\* order in which rows are inserted.
C17_EveryRawRowProcessed ==
    \A s \in TxIds :
        (RawRows(s) # {}) ~> (\E k \in ParsedRows(s) : parsed_sig[k].has_lp)

\* net change of the balance of mint in transaction sig
NetDelta(sig, mint) ==
    SumMint(ChainTx[sig].postTokenBalances, mint)
        - SumMint(ChainTx[sig].preTokenBalances, mint)

\* C18: every SwapEvent has base_amt > 0, quote_amt > 0 and price =
\* quote_amt / base_amt, where base_amt is the amount of the event's token
\* the transaction received and quote_amt the amount of the other mint of the
\* pool it spent; a transaction without such a pair has no SwapEvent.
C18_SwapEventAmounts ==
    \A i \in 1..Len(swap_event) :
        LET e == swap_event[i]
        IN  /\ e.base_amt > 0
            /\ e.quote_amt > 0
            /\ e.price = (e.quote_amt * PRICE_SCALE) \div e.base_amt
            /\ e.base_amt = NetDelta(e.sig, e.token)
            /\ \E q \in {WSOL, "TOK", "USD"} :
                  /\ e.pool = e.token \o "-" \o q
                  /\ e.quote_amt = 0 - NetDelta(e.sig, q)

\* C18 witness: the parser has processed the rows up to slot 3; the rows of
\* s4 and s1 gave a SwapEvent, the row of s2 (no net change) gave none.
C18_Witness ==
    /\ spc = "cursor"
    /\ swap_last_slot = 3
    /\ \E i \in 1..Len(swap_event) : swap_event[i].sig = "s4" /\ swap_event[i].price = 40
    /\ \E i \in 1..Len(swap_event) : swap_event[i].sig = "s1" /\ swap_event[i].price = 50
    /\ \A i \in 1..Len(swap_event) : swap_event[i].sig # "s2"

\* the transaction names no configured program id
NoProgram(sig) ==
    PROGRAM_SET \cap (ChainTx[sig].accountKeys \cup ChainTx[sig].programIds) = {}

\* C19 (as claimed): once both parsers have processed a TxRaw row whose
\* transaction names no configured program id (the LP parser has marked it,
\* the swap parser has finished a batch that reached its slot), there is no
\* SwapEvent and no LpEvent of its signature, its ParsedSig row has
\* has_swap and has_lp, and both parsers' last_slot are >= its slot.
C19_UnknownProgramSkipped ==
    \A i \in 1..Len(tx_raw) :
        LET r == tx_raw[i]
        IN  ( /\ NoProgram(r.signature)
              /\ \E k \in ParsedRows(r.signature) : parsed_sig[k].has_lp
              /\ spc = "fetch" /\ swap_last_slot >= r.slot
              /\ lpc = "fetch" /\ lp_last_slot >= r.slot )
            => /\ \A k \in 1..Len(swap_event) : swap_event[k].sig # r.signature
               /\ \A k \in 1..Len(lp_event) : lp_event[k].sig # r.signature
               /\ \E k \in ParsedRows(r.signature) :
                     parsed_sig[k].has_swap /\ parsed_sig[k].has_lp
               /\ SwapCursor >= r.slot

C21_PartialTickLeavesOpen ==
    xpc = "close_state" =>
        TakenTags(position[Head(xqueue).id].meta) \subseteq xtaken

\* the close thresholds for the position the exit worker is handling, at the
\* price it read for this tick
TpReached == xpx * 100 >= Head(xqueue).entry_px * TP_MULT
SlReached == ~TpReached /\ xpx * 100 <= Head(xqueue).entry_px * SL_MULT
ExpectedReason == IF TpReached THEN "TP_HIT" ELSE "SL_HIT"

IsClosingFill(f) == f.side = "SELL" /\ f.lvl_tag = ""
IsClosingEvent(e) == e.reason \in {"TP_HIT", "SL_HIT"}

\* C22: for an OPEN position with a latest price cur_px > 0, the tick closes the
\* position iff cur_px >= entry_px*TP_MULT (reason TP_HIT) or else
\* cur_px <= entry_px*SL_MULT (reason SL_HIT): it inserts one SELL Fill at
\* px = cur_px for the remaining size, sets state = CLOSED and appends one
\* ExitEvent with that reason; otherwise the position stays OPEN and no closing
\* Fill or TP_HIT / SL_HIT event is written.
C22_FullClose ==
    /\ [] ( /\ xpc \in {"close_fill", "close_state", "close_event"} =>
                 /\ xpx > 0
                 /\ TpReached \/ SlReached
                 /\ xreason = ExpectedReason
            /\ xpc = "close_fill" =>
                 /\ position[Head(xqueue).id].state = "OPEN"
                 /\ xqty = position[Head(xqueue).id].size_sol
            /\ xpc = "close_state" =>
                 /\ position[Head(xqueue).id].state = "OPEN"
                 /\ Len(fill) > 0
                 /\ fill[Len(fill)].pos_id = Head(xqueue).id
                 /\ IsClosingFill(fill[Len(fill)])
                 /\ fill[Len(fill)].px = xpx
                 /\ fill[Len(fill)].qty = position[Head(xqueue).id].size_sol
            /\ xpc = "close_event" =>
                 position[Head(xqueue).id].state = "CLOSED" )
    /\ [][ /\ (xpc = "close" /\ xpc' \notin {"close", "idle"}) =>
                 IF TpReached \/ SlReached
                 THEN xpc' = "close_fill"
                 ELSE /\ xpc' = "next"
                      /\ UNCHANGED <<position, fill, exit_event>>
           /\ (xpc = "close_fill" /\ xpc' = "close_state") =>
                 Len(fill') = Len(fill) + 1
           /\ (xpc = "close_event" /\ xpc' = "next") =>
                 /\ Len(exit_event') = Len(exit_event) + 1
                 /\ exit_event'[Len(exit_event')].pos_id = Head(xqueue).id
                 /\ exit_event'[Len(exit_event')].reason = ExpectedReason
           /\ ( \/ /\ Len(fill') > Len(fill)
                   /\ IsClosingFill(fill'[Len(fill')])
                \/ /\ Len(exit_event') > Len(exit_event)
                   /\ IsClosingEvent(exit_event'[Len(exit_event')])
                \/ \E j \in 1..Len(position) :
                      position[j].state = "OPEN" /\ position'[j].state # "OPEN" )
              => /\ xpc \in {"close_fill", "close_state", "close_event"}
                 /\ TpReached \/ SlReached
         ]_vars

\* C22 witness: a tick has closed the position at the price 0.25 <= sl_px: the
\* last Fill is the closing SELL at 0.25 and the last ExitEvent is SL_HIT.
C22_Witness ==
    /\ xpc = "next"
    /\ position[1].state = "CLOSED"
    /\ Len(fill) > 0 /\ IsClosingFill(fill[Len(fill)])
    /\ fill[Len(fill)].px = 25
    /\ fill[Len(fill)].qty = position[1].size_sol
    /\ Len(exit_event) > 0 /\ exit_event[Len(exit_event)].reason = "SL_HIT"

\* the level the exit worker is applying and the tag the claim expects for it
CurLevel == PartialList(xside)[xidx]
LevelText == (50 :> "0.5") @@ (150 :> "1.5") @@ (200 :> "2.0")
ExpectedTag == "partial_" \o xside \o "_" \o LevelText[CurLevel.level]
TagFills(tag) == {k \in 1..Len(fill) : fill[k].lvl_tag = tag}

\* C29: when a partial level fires, the SELL Fill has px = cur_px and
\* qty = (the position's size at that moment) * ratio (to the last digit the
\* fixed-point sizes of the model keep), Position.size is then
\* decreased by exactly that qty, and the tag merged into Position.meta is
\* partial_{TP|SL}_{level}; a later level uses the size the earlier ones left
\* (size 10 with 1.5:0.25 then 2.0:0.5: fills 2.5 and 3.75, sizes 7.5 and 3.75).
C29_PartialFillAndSize ==
    /\ [] ( /\ xpc = "partial_size" =>
                 LET f == fill[Len(fill)]
                     p == position[Head(xqueue).id]
                 IN  /\ xside \in {"TP", "SL"}
                     /\ f.pos_id = Head(xqueue).id
                     /\ f.side = "SELL"
                     /\ f.px = xpx
                     /\ f.qty * 100 <= p.size_sol * CurLevel.ratio
                     /\ p.size_sol * CurLevel.ratio < (f.qty + 1) * 100
                     /\ f.lvl_tag = ExpectedTag
            /\ ( /\ xfaults = 0
                 /\ partials = [TP |-> <<Item(150, 25), Item(200, 50)>>, SL |-> <<>>] )
               => /\ \A k \in TagFills("partial_TP_1.5") : fill[k].qty = 25000
                  /\ \A k \in TagFills("partial_TP_2.0") : fill[k].qty = 37500
                  /\ position[1].size_sol \in {100000, 75000, 37500} )
    /\ [][ /\ (xpc = "partial_size" /\ xpc' = "partial_tag") =>
                 position'[Head(xqueue).id].size_sol =
                     position[Head(xqueue).id].size_sol - fill[Len(fill)].qty
           /\ (xpc = "partial_tag" /\ xpc' = "partial_event") =>
                 LET old == position[Head(xqueue).id].meta
                     new == position'[Head(xqueue).id].meta
                 IN  /\ DOMAIN new = DOMAIN old \cup {ExpectedTag}
                     /\ new[ExpectedTag] = TRUE
                     /\ \A k \in DOMAIN old \ {ExpectedTag} : new[k] = old[k]
         ]_vars

\* C29 witness: level 1.5 fired at price 1.6 for qty 2.5 and level 2.0 fired
\* at price 2.1 for qty 3.75; the position holds both tags and size 3.75.
C29_Witness ==
    /\ \E k \in TagFills("partial_TP_1.5") : fill[k].px = 160 /\ fill[k].qty = 25000
    /\ \E k \in TagFills("partial_TP_2.0") : fill[k].px = 210 /\ fill[k].qty = 37500
    /\ {"partial_TP_1.5", "partial_TP_2.0"} \subseteq DOMAIN position[1].meta
    /\ position[1].size_sol = 37500

StatusEdges == { <<"queued", "resolving">>, <<"resolving", "resolved">>,
                 <<"resolving", "queued">>, <<"resolving", "error">> }

\* C30: TxQueue.status changes only along queued -> resolving,
\* resolving -> resolved, resolving -> queued and resolving -> error (so
\* resolved and error are terminal), rows are never removed, and retries never
\* decreases.
C30_StatusTransitions ==
    [][ /\ Len(tx_queue') >= Len(tx_queue)
        /\ \A i \in 1..Len(tx_queue) :
              /\ tx_queue'[i].signature = tx_queue[i].signature
              /\ tx_queue'[i].status # tx_queue[i].status
                    => <<tx_queue[i].status, tx_queue'[i].status>> \in StatusEdges
              /\ tx_queue'[i].retries >= tx_queue[i].retries
      ]_vars

\* C30 witness: one row went through failed attempts to error, another was
\* resolved after a failed attempt had put it back to queued.
C30_Witness ==
    /\ \E i \in 1..Len(tx_queue) : tx_queue[i].status = "error"
    /\ \E i \in 1..Len(tx_queue) :
          tx_queue[i].status = "resolved" /\ tx_queue[i].retries >= 1

\* the classification of a feature row as C23 states it
RuleInputs == << <<"vc", "VC", "atr15">>, <<"ofs", "OFS", "cvd_slope_1m">>,
                 <<"lt", "LT", "depth_1p0">>, <<"wc", "WC", "wc_quality_arrivals">>,
                 <<"rq", "RQ", "watchers_slope">> >>
InputValue(row, i) == row[RuleInputs[i][3]]
InBound(row, i) ==
    LET x == InputValue(row, i).v
    IN  CASE i = 1 -> x <= 150
          [] i = 2 -> x <= 10 /\ x >= -10
          [] i = 3 -> x <= 50000000
          [] i = 4 -> x >= 6000
          [] i = 5 -> x <= 5000
NullInputs(row) == {i \in 1..5 : InputValue(row, i).t = "null"}
OutOfBound(row) == {i \in 1..5 : ~InBound(row, i)}
Classified(row, res) ==
    IF NullInputs(row) # {}
    THEN res = <<FALSE, "missing:" \o
                   Join(SelectSeqIdx([i \in 1..5 |-> RuleInputs[i][1]], NullInputs(row)))>>
    ELSE IF \E i \in 1..5 : InputValue(row, i).t # "num"
    THEN res = <<FALSE, "type_cast_fail">>
    ELSE IF OutOfBound(row) # {}
    THEN res = <<FALSE, "fail:" \o
                   Join(SelectSeqIdx([i \in 1..5 |-> RuleInputs[i][2]], OutOfBound(row)))>>
    ELSE res[1] = TRUE /\ StartsWith(res[2], "SCF5:")

\* C23: rule_pass classifies a row by precedence: a NULL input gives
\* missing:<keys>; else a non-numeric input gives type_cast_fail; else a bound
\* that is not met gives fail:<names> in the order VC,OFS,LT,WC,RQ; else the row
\* passes with a reason starting SCF5: (bounds inclusive).  The detector emits
\* a signal only for a row that passes, with that reason.
C23_RulePrecedence ==
    /\ \A k \in 1..Len(features_latest) :
          Classified(features_latest[k], rule_pass(features_latest[k]))
    /\ \A d \in Detectors :
          dpc[d] = "insert" =>
             /\ Classified(Head(drows[d]), <<TRUE, dstmt[d].reason>>)
             /\ NullInputs(Head(drows[d])) = {}
             /\ OutOfBound(Head(drows[d])) = {}
    /\ \A s \in 1..Len(detector_signal) :
          /\ StartsWith(detector_signal[s].reason, "SCF5:")
          /\ \E k \in 1..Len(features_latest) :
                /\ features_latest[k].pool = detector_signal[s].pool
                /\ \A i \in 1..5 : InputValue(features_latest[k], i).t = "num"
                /\ OutOfBound(features_latest[k]) = {}

\* C23 witness: a row with every input exactly on its threshold (wc = 0.6)
\* has produced a signal whose reason starts with SCF5:.
C23_Witness ==
    /\ Len(detector_signal) >= 1
    /\ features_latest[1].wc_quality_arrivals = NumV(6000)
    /\ features_latest[1].atr15 = NumV(150)
    /\ StartsWith(detector_signal[1].reason, "SCF5:")
    /\ dpc[1] = "poll"

SwapEventsOf(sig) == {k \in 1..Len(swap_event) : swap_event[k].sig = sig}
LpEventsOf(sig) == {k \in 1..Len(lp_event) : lp_event[k].sig = sig}

\* C25 (as claimed): replaying TxRaw rows through a parser after a restart
\* part-way through a batch (swap parser: events written, cursor not yet
\* persisted) emits no event twice: no signature has two SwapEvent rows or two
\* LpEvent rows.
C25_ReplayNoDuplicateEvents ==
    \A sig \in TxIds :
        /\ Cardinality(SwapEventsOf(sig)) <= 1
        /\ Cardinality(LpEventsOf(sig)) <= 1

\* C24 (as claimed): no worker terminates itself on a transient error: when a
\* statement fails inside the detector's loop the detector abandons the batch
\* and goes on with its next iteration; its loop is never left.
C24_LoopNeverLeft ==
    \A d \in Detectors : dpc[d] # "ended"

AuthEventsOf(sig) ==
    {k \in 1..Len(authority_event) : authority_event[k].of_sig = sig}

\* C26 (as claimed): under every interleaving of two authority parser
\* instances over the same TxRaw rows, no signature gets two AuthorityEvent
\* rows.
C26_TwoParsersNoDuplicate ==
    \A sig \in TxIds : Cardinality(AuthEventsOf(sig)) <= 1

\* C27 (as claimed): once stop_all has set the stop flag no worker subprocess
\* is started again (also not by a watcher that was sleeping in its restart
\* backoff when the flag was set), and once stop_all has returned no worker
\* subprocess is left running.
C27_NoStartAfterStop ==
    /\ [] (stop_pc = "done" => \A w \in Workers : ~alive[w])
    /\ [][ stop_flag => \A w \in Workers : alive'[w] => alive[w] ]_vars

\* the delays the claim lists for restart_backoff = 2: 2, 4, 8, 16, 32, 60, 60, ...
ClaimedDelay(n) == IF n <= 5 THEN 2^n ELSE 60

\* C28: on the n-th exit of a worker (n = exit_count >= 1) with the stop flag
\* not set, the restart is scheduled after max(2, min(restart_backoff *
\* 2^(n-1), 60)) seconds: 2, 4, 8, 16, 32, 60, 60, ... for backoff 2; the delay
\* is always within [2, 60] and never decreases, as exit_count is never reset.
C28_RestartDelay ==
    /\ [] ( \A w \in Workers :
              wpc[w] = "sleep" =>
                 /\ exit_count[w] >= 1
                 /\ wdelay[w] = ClaimedDelay(exit_count[w])
                 /\ wdelay[w] >= 2 /\ wdelay[w] <= 60 )
    /\ [][ \A w \in Workers :
              /\ exit_count'[w] >= exit_count[w]
              /\ wdelay'[w] >= wdelay[w] ]_vars

\* C28 witness: a worker has exited seven times and sleeps 60 s before its
\* restart, the other one has exited once and sleeps 2 s.
C28_Witness ==
    \E w, v \in Workers :
        /\ wpc[w] = "sleep" /\ exit_count[w] = 7 /\ wdelay[w] = 60
        /\ wpc[v] = "sleep" /\ exit_count[v] = 1 /\ wdelay[v] = 2
        /\ ~stop_flag

-----------------------------------------------------------------------------
(* The swap parser over one TxRaw row of every combination of balances     *)

Absent == [t |-> "absent"]

InferMints == {WSOL, "TOK", "USD"}
PreAmounts  == {Absent, NumV(3)}
PostAmounts == {Absent, NullV, NumV(1), NumV(3), NumV(5), NumV(6)}

\* the entries a balance list holds for the mints, one at most for each
BalList(f) ==
    LET entry(mint) == IF f[mint].t = "absent" THEN <<>> ELSE <<Bal(mint, f[mint])>>
    IN  entry(WSOL) \o entry("TOK") \o entry("USD")

InferTables ==
    { <<RawRow("m", 1, MetaPayload(BalList(pre), BalList(post)))>> :
        pre \in [InferMints -> PreAmounts], post \in [InferMints -> PostAmounts] }

InitInfer == TradeIdle /\ PipeInit({<<>>}, InferTables)
NextInfer == SwapParserStep
SpecInfer == InitInfer /\ [][NextInfer]_vars

\* net change of the balance of mint in the payload of the TxRaw row
InferDelta(mint) ==
    SumMint(tx_raw[1].j.meta.postTokenBalances, mint)
        - SumMint(tx_raw[1].j.meta.preTokenBalances, mint)

Gained == {k \in InferMints : InferDelta(k) > 0}
Spent  == {k \in InferMints : InferDelta(k) < 0}

\* the mints of S whose |delta| no mint of S exceeds
Largest(S) == {k \in S : \A o \in S : Abs(InferDelta(k)) >= Abs(InferDelta(o))}

\* (base, quote) of the reference: the mint of largest |delta| with the
\* largest-|delta| mint of the opposite sign, the positive one first
RefPairs ==
    {p \in Gained \X Spent :
        \/ p[1] \in Largest(Gained \cup Spent) /\ p[2] \in Largest(Spent)
        \/ p[2] \in Largest(Gained \cup Spent) /\ p[1] \in Largest(Gained)}

RefEvent(b, q) ==
    [sig |-> "m", slot |-> 1, pool |-> b \o "-" \o q, token |-> b,
     side |-> IF b # WSOL /\ q = WSOL THEN 1 ELSE IF b = WSOL THEN -1 ELSE 0,
     price |-> (-InferDelta(q) * PRICE_SCALE) \div InferDelta(b),
     base_amt |-> InferDelta(b), quote_amt |-> -InferDelta(q)]

\* C31: infer_swap equals the reference for every pre/post balance input.
\* Every SwapEvent of the row is the reference's result for a pair of the
\* largest-|delta| mint and the largest-|delta| mint of opposite sign (base
\* the gained mint, quote the spent one, price = quote_amt / base_amt, side
\* by WSOL); once the row is processed there is an event when such a pair
\* exists, and there is never one when no two mints have deltas of opposite
\* sign.
C31_InferSwapReference ==
    /\ \A i \in 1..Len(swap_event) :
          \E p \in RefPairs : swap_event[i] = RefEvent(p[1], p[2])
    /\ (swap_last_slot = 1 /\ RefPairs # {}) => swap_event # <<>>
    /\ (Gained = {} \/ Spent = {}) => swap_event = <<>>

\* C31 witness: WSOL was gained, TOK and USD were spent, TOK more than USD;
\* the row is processed and its event sells for TOK.
C31_Witness ==
    /\ swap_last_slot = 1
    /\ InferDelta(WSOL) > 0
    /\ InferDelta("USD") < 0
    /\ InferDelta("TOK") < InferDelta("USD")
    /\ \E i \in 1..Len(swap_event) :
          /\ swap_event[i].token = WSOL
          /\ swap_event[i].pool = "WSOL-TOK"
          /\ swap_event[i].side = -1

\* the configured program ids the transaction names
ProgramsOf(sig) ==
    PROGRAM_SET \cap (ChainTx[sig].accountKeys \cup ChainTx[sig].programIds)

\* C32 (as claimed): the pool of a SwapEvent is a configured AMM program id
\* whenever the transaction's account keys or instructions hold one, and
\* base_mint-quote_mint only when they hold none.
C32_PoolIsProgramId ==
    \A i \in 1..Len(swap_event) :
        LET e == swap_event[i]
        IN  IF ProgramsOf(e.sig) # {}
            THEN e.pool \in ProgramsOf(e.sig)
            ELSE \E q \in {WSOL, "TOK", "USD"} : e.pool = e.token \o "-" \o q

\* a resolver instance and the swap parser on a store whose queue holds two
\* signatures
InitChain == TradeIdle /\
    PipeInit({<<[signature |-> "s1", program_id |-> "RAY", slot |-> 1,
                 status |-> "queued", retries |-> 0, last_error |-> 0],
                [signature |-> "s3", program_id |-> "ORCA", slot |-> 2,
                 status |-> "queued", retries |-> 0, last_error |-> 0]>>},
             {<<>>})
NextChain == SwapParserStep \/ ResStep(1) \/ ResCrash(1)
SpecChain == InitChain /\ [][NextChain]_vars

\* the transaction has two mints whose balances changed in opposite directions
HasOppositePair(sig) ==
    \E a, b \in {WSOL, "TOK", "USD"} : NetDelta(sig, a) > 0 /\ NetDelta(sig, b) < 0

\* C34 (as claimed): a transaction the resolver stored in TxRaw that has two
\* mints of opposite balance change has a SwapEvent once the swap parser has
\* processed a batch that reached its slot.
C34_ResolvedTxYieldsSwap ==
    \A i \in 1..Len(tx_raw) :
        LET r == tx_raw[i]
        IN  ( /\ HasOppositePair(r.signature)
              /\ spc = "fetch" /\ swap_last_slot >= r.slot )
            => \E k \in 1..Len(swap_event) : swap_event[k].sig = r.signature

\* the feature worker alone on a store whose swap_event holds a series of 4
\* to 7 swaps of one pool
SeriesKinds == { [side |->  1, base_amt |-> 1, price |-> 100],
                 [side |-> -1, base_amt |-> 2, price |-> 200],
                 [side |->  0, base_amt |-> 3, price |-> 100] }
SeriesLens == 4..7

SeriesRow(i, k) ==
    [sig |-> "q", slot |-> i, pool |-> "AAA", token |-> "TOK", side |-> k.side,
     price |-> k.price, base_amt |-> k.base_amt, quote_amt |-> k.base_amt,
     ts |-> i - 8]

SeriesTables ==
    UNION { { [i \in 1..n |-> SeriesRow(i, f[i])] : f \in [1..n -> SeriesKinds] } :
            n \in SeriesLens }

InitCvdSeries ==
    /\ StoreInit({<<>>}, {<<>>}, {<<>>}, OneVariant("paper"), NoPartials)
    /\ tx_queue = <<>> /\ tx_raw = <<>> /\ parsed_sig = <<>>
    /\ swap_event \in SeriesTables
    /\ lp_event = <<>> /\ cursor_state = <<>>
    /\ rpc = [r \in Resolvers |-> "claim"]
    /\ rcur = [r \in Resolvers |-> NoRow]
    /\ rerr = [r \in Resolvers |-> 0]
    /\ spc = "fetch" /\ swap_last_slot = 0 /\ swap_rows = <<>> /\ sfaults = 0
    /\ lpc = "fetch" /\ lp_last_slot = 0 /\ lp_rows = <<>>
    /\ AuthInit /\ RunnerInit /\ FeatInit /\ HealthInit
NextCvd == FeatStep
SpecCvd == InitCvdSeries /\ [][NextCvd]_vars

\* the cumulative signed base volume after each swap of the pool, 0-based
Cvd(k) ==
    LET rows == Series(swap_event, "AAA", now)
    IN  SumSeq([i \in 1..(k + 1) |->
            IF rows[i].side > 0 THEN rows[i].base_amt
            ELSE IF rows[i].side < 0 THEN -rows[i].base_amt ELSE 0])

\* C33 (as claimed): the cvd_slope_5m the feature worker stores for a pool of
\* n >= 3 swaps is (cvd[last] - cvd[max(0, last-5)]) / 5.
C33_CvdSlopeFiveBack ==
    \A i \in 1..Len(features_latest) :
        LET last == Len(swap_event) - 1
        IN  features_latest[i].cvd_slope_5m =
                NumV(((Cvd(last) - Cvd(Max(0, last - 5))) * FEAT_SCALE) \div 5)

\* the feature worker and a detector on a store that holds a feature row of
\* pool CCC written by another producer, and whose swap_event holds a quiet
\* series of pool AAA and a short one of pool BBB
QuietSeries ==
    [i \in 1..5 |-> SeriesRow(i, [side |-> IF i % 2 = 0 THEN 1 ELSE -1,
                                  base_amt |-> 1, price |-> 100])]
    \o [i \in 1..2 |-> [SeriesRow(i, [side |-> 1, base_amt |-> 1, price |-> 100])
                           EXCEPT !.pool = "BBB"]]

InitFeat ==
    /\ StoreInit({<<RowPass("CCC")>>}, {<<>>}, {<<>>}, OneVariant("paper"), NoPartials)
    /\ tx_queue = <<>> /\ tx_raw = <<>> /\ parsed_sig = <<>>
    /\ swap_event = QuietSeries
    /\ lp_event = <<>> /\ cursor_state = <<>>
    /\ rpc = [r \in Resolvers |-> "claim"]
    /\ rcur = [r \in Resolvers |-> NoRow]
    /\ rerr = [r \in Resolvers |-> 0]
    /\ spc = "fetch" /\ swap_last_slot = 0 /\ swap_rows = <<>> /\ sfaults = 0
    /\ lpc = "fetch" /\ lp_last_slot = 0 /\ lp_rows = <<>>
    /\ AuthInit /\ RunnerInit /\ FeatInit /\ HealthInit
NextFeat == Tick \/ FeatStep \/ DetStep(1)
SpecFeat == InitFeat /\ [][NextFeat]_vars

\* C35 (as claimed): a FeaturesLatest row upserted by the feature worker has
\* a non-null value for each of the five inputs of the detector's rule, and
\* the detector never finds one of them missing in a row it evaluates.
C35_FeatureRowFeedsRule ==
    /\ \A i \in 1..Len(features_latest) :
          "cvd_slope_5m" \in DOMAIN features_latest[i] =>
              \A k \in {"vc", "ofs", "lt", "wc", "rq"} :
                  pick(features_latest[i], FEATURE_KEYS[k]).t # "null"
    /\ \A d \in Detectors : \A i \in 1..Len(drows[d]) :
          \A k \in {"vc", "ofs", "lt", "wc", "rq"} :
              pick(drows[d][i], FEATURE_KEYS[k]).t # "null"

\* one paper executor, no statement of which fails, on a store whose
\* detector_signal holds more signals of one window than BATCH
StarveTables ==
    { <<Signal(1, "AAA", 0), Signal(2, "BBB", 0), Signal(3, "CCC", 0)>>,
      <<Signal(1, "AAA", 0), Signal(2, "BBB", 0), Signal(3, "CCC", 1)>>,
      <<Signal(1, "AAA", 0), Signal(2, "BBB", 1)>>,
      <<Signal(1, "AAA", 0), Signal(2, "BBB", 1), Signal(3, "CCC", 1)>>,
      <<Signal(1, "AAA", 1), Signal(2, "BBB", 0), Signal(3, "CCC", 2)>>,
      <<Signal(1, "AAA", 1), Signal(2, "BBB", 1), Signal(3, "CCC", 0)>>,
      <<Signal(1, "AAA", 2), Signal(2, "BBB", 1)>>,
      <<Signal(1, "AAA", 0)>> }

\* the statements of process_batch
ExecWork(e) ==
    \/ ExecFetch(e)
    \/ Len(esignals[e]) > 0 /\ ExecExists(e)
    \/ ExecInsertPosition(e)
    \/ ExecInsertFill(e)

\* process_batch returns and the executor sleeps POLL_SEC: the clock advances
\* (up to MaxTime) while it sleeps
ExecSleep(e) ==
    /\ epc[e] = "exists"
    /\ Len(esignals[e]) = 0
    /\ now' = IF now < MaxTime THEN now + 1 ELSE now
    /\ epc' = [epc EXCEPT ![e] = "fetch"]
    /\ UNCHANGED <<extVars, pipeVars, dbVars, detVars, execVariant, esignals, enew, exitVars>>

\* the clock advances only between two passes of the executor
InitStarve == InitWith(SmallFeatures, StarveTables, {<<>>}, OneVariant("paper"), NoPartials)
NextStarve == ExecWork(1) \/ ExecSleep(1)
SpecStarve == InitStarve /\ [][NextStarve]_vars

\* the same where the executor keeps ticking: its statements complete and
\* its sleeps end
SpecStarveFair == SpecStarve /\ WF_vars(NextStarve)

\* C36 (as claimed): every DetectorSignal eventually has a Position while the
\* executor keeps ticking, however many signals lie inside the window.
C36_EverySignalOpened ==
    \A id \in 1..3 :
        (\E i \in 1..Len(detector_signal) : detector_signal[i].id = id)
            ~> PositionExists(position, Str(id))

\* the SELL fills and the exit events recorded for position id
SellFillsOf(id) == SelectSeq(fill, LAMBDA f : f.pos_id = id /\ f.side = "SELL")
ExitEventsOf(id) == SelectSeq(exit_event, LAMBDA e : e.pos_id = id)

\* the exit worker is between the statements of _close_full for position id
ClosingNow(id) ==
    /\ xpc \in {"close_fill", "close_state", "close_event"}
    /\ Head(xqueue).id = id

\* C37: with one exit worker none of whose ticks was cut short, for every
\* CLOSED position the quantities of its SELL Fills sum to the size it was
\* opened with and exactly one of them is the closing Fill; once _close_full
\* has returned for the position, no Fill and no ExitEvent of it is added
\* and its row (size, meta, state) does not change.
C37_ClosedPositionSettled ==
    /\ [] ( xfaults = 0 =>
              \A id \in 1..Len(position) :
                  position[id].state = "CLOSED" =>
                      /\ SumSeq([k \in 1..Len(SellFillsOf(id)) |-> SellFillsOf(id)[k].qty])
                            = SeedPosition(id, position[id].pool).size_sol
                      /\ Cardinality({k \in 1..Len(SellFillsOf(id)) :
                                         IsClosingFill(SellFillsOf(id)[k])}) = 1 )
    /\ [][ xfaults' = 0 =>
              \A id \in 1..Len(position) :
                  (position[id].state = "CLOSED" /\ ~ClosingNow(id)) =>
                      /\ SellFillsOf(id)' = SellFillsOf(id)
                      /\ ExitEventsOf(id)' = ExitEventsOf(id)
                      /\ position'[id] = position[id] ]_vars

\* C37 witness: the position is CLOSED after a partial exit and the close,
\* and the worker has gone on to a later tick.
C37_Witness ==
    /\ xfaults = 0
    /\ xpc = "next"
    /\ xqueue = <<>>
    /\ position[1].state = "CLOSED"
    /\ Len(SellFillsOf(1)) >= 2
    /\ Len(ExitEventsOf(1)) >= 2
    /\ \E k \in 1..Len(exit_event) : IsClosingEvent(exit_event[k])

\* C39: in every reachable state a TxQueue row has status resolved iff
\* tx_raw holds a row of its signature: the insert and the transition to
\* resolved are one transaction, whichever statement a resolver stops at.
C39_ResolvedIffRaw ==
    \A i \in 1..Len(tx_queue) :
        (tx_queue[i].status = "resolved")
            <=> (\E k \in 1..Len(tx_raw) : tx_raw[k].signature = tx_queue[i].signature)

\* C39 witness: a resolver stopped after fetching a transaction and before
\* storing it, and another signature was stored and resolved.
C39_Witness ==
    /\ \E i \in 1..Len(tx_queue) :
          /\ tx_queue[i].status = "resolving"
          /\ \A r \in Resolvers : rcur[r] = NoRow
    /\ \E i \in 1..Len(tx_queue) :
          /\ tx_queue[i].status = "resolved"
          /\ \E k \in 1..Len(tx_raw) : tx_raw[k].signature = tx_queue[i].signature

\* the runner with its health loop: start_all, the loop, stop signals, the
\* children and their watcher tasks, stop_all when the loop is left
NextHealth == \/ StartAll \/ SignalStop \/ HealthStep \/ StopAfterLoop \/ StopKill
              \/ \E w \in Workers : WorkerStep(w)
SpecHealth == InitRun /\ [][NextHealth]_vars

\* C40 (as claimed): a failure of the health tick never stops the pipeline:
\* the loop of run_full is never left by an exception, and stop_all runs only
\* after a stop signal.
C40_HealthFailureKeepsRunning ==
    /\ hpc # "raised"
    /\ stop_flag => stop_ev

\* the exit worker on a store that holds two OPEN positions, one of which has
\* no entry_px, with swap prices arriving
ExitRun == \/ ExitFetch \/ ExitNext \/ ExitPartialMeta \/ ExitPartialLevel
           \/ ExitPartialFill \/ ExitPartialSize \/ ExitPartialTag
           \/ ExitPartialEvent \/ ExitCloseDecide \/ ExitCloseFill
           \/ ExitCloseState \/ ExitCloseEvent

InitPoison == InitWith(SmallFeatures, {<<>>},
                       { <<PoisonPosition(1, "AAA"), SeedPosition(2, "AAA")>>,
                         <<SeedPosition(1, "AAA"), PoisonPosition(2, "AAA")>> },
                       OneVariant("paper"), PartialSpecs)
NextPoison == SwapStep \/ ExitRun
SpecPoison == InitPoison /\ [][NextPoison]_vars

\* the same where the exit worker keeps ticking
SpecPoisonFair == SpecPoison /\ WF_vars(ExitRun)

\* the latest price of the position's pool is at or beyond tp_px or sl_px
PriceReached(id) ==
    /\ position[id].entry_px # NullPx
    /\ latest_price[position[id].pool] > 0
    /\ CloseReason(latest_price[position[id].pool], position[id].entry_px) # ""

\* C38 (as claimed): a position whose latest price stays at or beyond tp_px
\* or sl_px is eventually CLOSED, also when the processing of another OPEN
\* position raises on every tick.
C38_OtherPositionsClosed ==
    \A id \in 1..2 : (<>[]PriceReached(id)) => <>(position[id].state = "CLOSED")

====
